---- MODULE Spec2Model ----
(***************************************************************************)
(* A model of choochoo's power estimation (src/ch2/data/power.py).         *)
(*                                                                         *)
(* A pandas table is a sequence of rows; a row is a function from the      *)
(* table's column names to cells.  The index (strictly increasing          *)
(* timestamps) is the position in the sequence, so a join on the index is  *)
(* a join on the position.  A cell is <<>> when the value is missing       *)
(* (NaN / NaT) and <<n>> when it is the number n.                          *)
(*                                                                         *)
(* Numbers are exact.  Columns that hold fractions are kept in a fixed     *)
(* unit: averages of squared speed in units of 1/AvgDen, energies of the   *)
(* energy budget in units of 1/EnergyDen J, power and cumulative energy of *)
(* add_power_estimate in units of 1/PowerDen.                              *)
(***************************************************************************)
EXTENDS Integers, Sequences, FiniteSets, TLC

VARIABLES
    df,         \* SpecDiff: the table handed from stage to stage
    pc,         \* SpecDiff: the stage the table has passed
    wind,       \* SpecDiff: the wind add_air_speed was last called with
    pdf,        \* SpecPower: the table add_power_estimate works on
    ppc,        \* SpecPower: "input" or "done"
    kargs,      \* SpecTransform: the dict forwards/backwards rewrite in place
    trail,      \* SpecTransform: <<transform applied, dict after it>>, oldest first
    fpc,        \* SpecFit: position inside fit_power
    vary,       \* SpecFit: the names fit_power was asked to vary
    best,       \* SpecFit: what measure_initial_delay returned
    model,      \* SpecFit: the PowerModel held by fit_power
    internal,   \* SpecFit: the optimizer's current internal values (a dict)
    evaluated,  \* SpecFit: the model last passed to evaluate_and_extend
    nevals,     \* SpecFit: calls of evaluate_and_extend so far
    regressed,  \* SpecFit: linregress has been computed
    fitcalled,  \* SpecFit: the fitting primitive has been invoked
    result,     \* SpecFit: what fit_power returned, or the exception raised
    ddf,        \* SpecDelay: the table measure_initial_delay is given
    dn,         \* SpecDelay: its argument n
    ddt,        \* SpecDelay: its argument dt, the spacing of the table's index
    dpc,        \* SpecDelay: "input" or "done"
    correln,    \* SpecDelay: the list of <<lag, correlation>> it built
    initial_delay, \* SpecDelay: what measure_initial_delay returned
    edf,        \* SpecEval: the table bound to df inside evaluate and its callers
    arg,        \* SpecEval: the table object last passed to evaluate, as it is now
    before,     \* SpecEval: that object as it was when evaluate was called
    stage_in,   \* SpecEval: the input of the last stage as it was when the stage was called
    fresh,      \* SpecEval: the table as add_differentials returned it
    epc,        \* SpecEval: the stage last passed
    emodel,     \* SpecEval: the model of the current call of evaluate
    eprev,      \* SpecEval: the model of the call before it, or <<>>
    stats,      \* SpecResample: the table linear_resample is given, a function of time
    keep_nan,   \* SpecResample: its argument keep_nan
    rdt,        \* SpecResample: its argument dt
    rpc,        \* SpecResample: "input" or "done"
    resampled,  \* SpecResample: the table it returned, a sequence of rows
    cpc,        \* SpecCalc: position inside _run_one
    config,     \* SpecCalc: the state of the activity's power configuration
    cvary,      \* SpecCalc: the names self.power.vary lists
    data,       \* SpecCalc: what _read_dataframe returned
    cstats,     \* SpecCalc: <<model, tables>> as _calculate_stats left it
    staged,     \* SpecCalc: the fields added to the current loader
    loaded,     \* SpecCalc: the fields loader.load() has stored
    raised,     \* SpecCalc: the exception each step raised, by step
    reports,    \* SpecCalc: the log levels written to
    timestamp,  \* SpecCalc: the Timestamp of the activity is recorded
    escaped,    \* SpecCalc: the exception that left _run_one, or "none"
    tabs,       \* SpecTabs: the tabs each TabNode manages, in order
    top,        \* SpecTabs: __top of each TabNode
    root,       \* SpecTabs: __root of each TabNode
    known,      \* SpecTabs: each TabNode's __focus holds a target for every tab
    focus,      \* SpecTabs: the tab that has the focus
    emits,      \* SpecTabs: the nodes that raised 'tab' during the last keypress
    event,      \* SpecTabs: the last signal a node received from one of its tabs
    call,       \* SpecChain: the call of the chain of a keypress that is running
    gnow,       \* SpecGarmin: what now() returns
    zone,       \* SpecGarmin: the offset of local time
    user,       \* SpecGarmin: the garmin_user constant is set
    password,   \* SpecGarmin: the garmin_password constant is set
    force_all,  \* SpecGarmin: the force_all argument
    last,       \* SpecGarmin: the LAST_GARMIN constant, a local time or None
    gpc,        \* SpecGarmin: position inside a run of the reader
    missing,    \* SpecGarmin: what _missing returned
    todo,       \* SpecGarmin: the dates the download loop has still to visit
    completed   \* SpecGarmin: when the last two completed downloads ended

diffVars == <<df, pc, wind>>
powerVars == <<pdf, ppc>>
transformVars == <<kargs, trail>>
fitVars == <<fpc, vary, best, model, internal, evaluated, nevals, regressed, fitcalled, result>>
delayVars == <<ddf, dn, ddt, dpc, correln, initial_delay>>
evalVars == <<edf, arg, before, stage_in, fresh, epc, emodel, eprev>>
resampleVars == <<stats, keep_nan, rdt, rpc, resampled>>
calcVars == <<cpc, config, cvary, data, cstats, staged, loaded, raised, reports, timestamp, escaped>>
tabVars == <<tabs, top, root, known, focus, emits, event, call>>
garminVars == <<gnow, zone, user, password, force_all, last, gpc, missing, todo, completed>>
laterVars == <<delayVars, evalVars, resampleVars, calcVars, tabVars, garminVars>>
vars == <<df, pc, wind, pdf, ppc, kargs, trail, fpc, vary, best, model, internal,
          evaluated, nevals, regressed, fitcalled, result, laterVars>>

\* the variables of a specification that is not running
DelayOff ==
    /\ ddf = <<>> /\ dn = 0 /\ ddt = 0 /\ dpc = "off" /\ correln = <<>>
    /\ initial_delay = 0

EvalOff ==
    /\ edf = <<>> /\ arg = <<>> /\ before = <<>> /\ stage_in = <<>> /\ fresh = <<>>
    /\ epc = "off" /\ emodel = <<>> /\ eprev = <<>>

ResampleOff ==
    /\ stats = <<>> /\ keep_nan = FALSE /\ rdt = 0 /\ rpc = "off" /\ resampled = <<>>

CalcOff ==
    /\ cpc = "off" /\ config = "" /\ cvary = {} /\ data = "" /\ cstats = <<>>
    /\ staged = {} /\ loaded = {} /\ raised = <<>> /\ reports = {}
    /\ timestamp = FALSE /\ escaped = ""

TabsOff ==
    /\ tabs = <<>> /\ top = <<>> /\ root = <<>> /\ known = <<>>
    /\ focus = "" /\ emits = <<>> /\ event = <<>> /\ call = <<>>

GarminOff ==
    /\ gnow = 0 /\ zone = 0 /\ user = FALSE /\ password = FALSE /\ force_all = FALSE
    /\ last = <<>> /\ gpc = "off" /\ missing = <<>> /\ todo = 0 /\ completed = <<>>

InitLater == DelayOff /\ EvalOff /\ ResampleOff /\ CalcOff /\ TabsOff /\ GarminOff

(***************************************************************************)
(* Cells                                                                   *)
(***************************************************************************)
NaN == <<>>

Num(n) == <<n>>

IsNaN(c) == c = NaN

Val(c) == c[1]

\* binary arithmetic on cells: a missing operand gives a missing result
Add(a, b) == IF IsNaN(a) \/ IsNaN(b) THEN NaN ELSE Num(Val(a) + Val(b))

Sub(a, b) == IF IsNaN(a) \/ IsNaN(b) THEN NaN ELSE Num(Val(a) - Val(b))

Mul(a, b) == IF IsNaN(a) \/ IsNaN(b) THEN NaN ELSE Num(Val(a) * Val(b))

Abs(n) == IF n < 0 THEN -n ELSE n

(***************************************************************************)
(* Column names (ch2.stoats.names)                                         *)
(***************************************************************************)
TIMESPAN_ID == "timespan_id"
SPEED == "speed"
DISTANCE == "distance"
ELEVATION == "elevation"
LATITUDE == "latitude"
LONGITUDE == "longitude"
HEADING == "heading"
AIR_SPEED == "air_speed"
SPEED_2 == "speed_2"
AIR_SPEED_2 == "air_speed_2"
DELTA_SPEED == "d_speed"
DELTA_SPEED_2 == "d_speed_2"
DELTA_DISTANCE == "d_distance"
DELTA_ELEVATION == "d_elevation"
DELTA_LATITUDE == "d_latitude"
DELTA_LONGITUDE == "d_longitude"
AVG_SPEED_2 == "avg_speed_2"
AVG_AIR_SPEED_2 == "avg_air_speed_2"
DELTA_ENERGY == "d_energy"
LOSS == "loss"
DELTA_TIME == "d_time"
CADENCE == "cadence"
POWER == "power"
ENERGY == "energy"

\* _sqr(name), _d(name), _avg(name): the derived column's name
Sqr_(name) ==
    CASE name = SPEED -> SPEED_2
      [] name = AIR_SPEED -> AIR_SPEED_2

D_(name) ==
    CASE name = SPEED -> DELTA_SPEED
      [] name = SPEED_2 -> DELTA_SPEED_2
      [] name = DISTANCE -> DELTA_DISTANCE
      [] name = ELEVATION -> DELTA_ELEVATION
      [] name = LATITUDE -> DELTA_LATITUDE
      [] name = LONGITUDE -> DELTA_LONGITUDE

Avg_(name) ==
    CASE name = SPEED_2 -> AVG_SPEED_2
      [] name = AIR_SPEED_2 -> AVG_AIR_SPEED_2

(***************************************************************************)
(* Tables                                                                  *)
(***************************************************************************)
Columns(t) == DOMAIN t[1]

Rows(t) == 1..Len(t)

\* df[name] = column: assignment of a whole column, added if absent
SetColumn(t, name, column) ==
    [i \in Rows(t) |->
        [c \in Columns(t) \cup {name} |-> IF c = name THEN column[i] ELSE t[i][c]]]

\* df.groupby(TIMESPAN_ID): the distinct identifiers; rows whose identifier
\* is missing belong to no group
GroupKeys(t) == {Val(t[i][TIMESPAN_ID]) : i \in {j \in Rows(t) : ~IsNaN(t[j][TIMESPAN_ID])}}

\* the positions lo..hi of one group, in table order
RECURSIVE GroupBetween(_, _, _, _)
GroupBetween(t, key, lo, hi) ==
    IF lo > hi THEN <<>>
    ELSE IF lo = hi THEN (IF t[lo][TIMESPAN_ID] = Num(key) THEN <<lo>> ELSE <<>>)
    ELSE GroupBetween(t, key, lo, (lo + hi) \div 2)
            \o GroupBetween(t, key, ((lo + hi) \div 2) + 1, hi)

\* a grouping that ignores the identifier: every row that has one, as one group
GroupIgnoringKey(t, key) ==
    LET all == {i \in Rows(t) : ~IsNaN(t[i][TIMESPAN_ID])}
        RECURSIVE Upto(_)
        Upto(i) == IF i > Len(t) THEN <<>>
                   ELSE (IF i \in all THEN <<i>> ELSE <<>>) \o Upto(i + 1)
    IN  Upto(1)

Group(t, key) == GroupBetween(t, key, 1, Len(t))

(***************************************************************************)
(* Differentiator: add_differentials, add_air_speed, _add_differentials    *)
(***************************************************************************)
RAD_TO_DEG_HALF_TURN == 180

\* np.arctan2(y, x) * RAD_TO_DEG, exact on the eight compass directions
Arctan2Deg(y, x) ==
    CASE y = 0 /\ x >= 0 -> 0
      [] y = 0 /\ x < 0 -> RAD_TO_DEG_HALF_TURN
      [] x = 0 /\ y > 0 -> 90
      [] x = 0 /\ y < 0 -> -90
      [] y = x /\ x > 0 -> 45
      [] y = x /\ x < 0 -> -135
      [] y = -x /\ x > 0 -> -45
      [] y = -x /\ x < 0 -> 135

\* np.cos(d / RAD_TO_DEG), exact on multiples of a quarter turn
CosDeg(d) ==
    CASE d % 360 = 0 -> 1
      [] d % 360 = 90 -> 0
      [] d % 360 = 180 -> -1
      [] d % 360 = 270 -> 0

\* the unit of the avg_* columns: (a**2 + a*b + b**2)/3 is held as its numerator
AvgDen == 3

AvgSpeed2(a, b) ==
    IF IsNaN(a) \/ IsNaN(b) THEN NaN
    ELSE Num(((Val(a) * Val(a) + Val(a) * Val(b) + Val(b) * Val(b)) * AvgDen) \div 3)

\* df[speed_2] = df[speed] ** 2
WithSquare(t, speed) ==
    SetColumn(t, Sqr_(speed), [i \in Rows(t) |-> Mul(t[i][speed], t[i][speed])])

\* a check that lets every group through
NoNaNsUnchecked(t, g, names) == TRUE

\* len(old_span[name]) == len(old_span[name].dropna()) for every name
NoNaNs(t, g, names) ==
    \A name \in names : \A k \in 1..Len(g) : ~IsNaN(t[g[k]][name])

\* the groups for which diff() yields a span
Spans(t, names) == {key \in GroupKeys(t) : NoNaNs(t, Group(t, key), names)}

\* the columns of the spans diff() yields
SpanColumns(t, speed, names) ==
    {D_(name) : name \in names}
        \cup (IF HEADING \in Columns(t) THEN {} ELSE {HEADING})
        \cup {Avg_(Sqr_(speed))}

\* old_span[col].diff() at position k of the group
SpanDiff(t, g, k, col) ==
    IF k = 1 THEN NaN ELSE Sub(t[g[k]][col], t[g[k - 1]][col])

\* one row of new_span
SpanRow(t, speed, names, g, k) ==
    [c \in SpanColumns(t, speed, names) |->
        IF c = Avg_(Sqr_(speed))
            THEN (IF k = 1 THEN NaN ELSE AvgSpeed2(t[g[k - 1]][speed], t[g[k]][speed]))
        ELSE IF c = HEADING
            THEN (LET dlon == SpanDiff(t, g, k, LONGITUDE)
                      dlat == SpanDiff(t, g, k, LATITUDE)
                  IN  IF IsNaN(dlon) \/ IsNaN(dlat) THEN NaN
                      ELSE Num(Arctan2Deg(Val(dlon), Val(dlat))))
        ELSE SpanDiff(t, g, k, CHOOSE name \in names : D_(name) = c)]

\* position of row i inside the sequence g
PosIn(g, i) == CHOOSE k \in 1..Len(g) : g[k] = i

\* pd.concat(spans), looked up at index i: the row of the span that holds i,
\* or all-missing when no span holds it (the left join)
ExtraRow(t, speed, names, i) ==
    IF ~IsNaN(t[i][TIMESPAN_ID]) /\ Val(t[i][TIMESPAN_ID]) \in Spans(t, names)
    THEN LET g == Group(t, Val(t[i][TIMESPAN_ID]))
         IN  SpanRow(t, speed, names, g, PosIn(g, i))
    ELSE [c \in SpanColumns(t, speed, names) |-> NaN]

\* df.drop(columns=list(extra.columns), errors='ignore').join(extra)
DropJoin(t, speed, names) ==
    [i \in Rows(t) |->
        LET extra == ExtraRow(t, speed, names, i)
        IN  [c \in Columns(t) \cup DOMAIN extra |->
                IF c \in DOMAIN extra THEN extra[c] ELSE t[i][c]]]

\* _add_differentials raises PowerException: diff() yielded no span
Differentials_Raises(t, speed, names) == Spans(WithSquare(t, speed), names) = {}

\* _add_differentials returns this table otherwise
Differentials_(t, speed, names) == DropJoin(WithSquare(t, speed), speed, names)

\* the names add_differentials differentiates
DifferentialNames == {DISTANCE, ELEVATION, SPEED, SPEED_2, LATITUDE, LONGITUDE}

add_differentials_raises(t) == Differentials_Raises(t, SPEED, DifferentialNames)

add_differentials(t) == Differentials_(t, SPEED, DifferentialNames)

\* df[AIR_SPEED] = df[SPEED] + wind_speed * np.cos((df[HEADING] - wind_heading) / RAD_TO_DEG)
AirSpeed(row, wind_speed, wind_heading) ==
    IF IsNaN(row[SPEED]) \/ IsNaN(row[HEADING]) THEN NaN
    ELSE Num(Val(row[SPEED]) + wind_speed * CosDeg(Val(row[HEADING]) - wind_heading))

WithAirSpeed(t, wind_speed, wind_heading) ==
    SetColumn(t, AIR_SPEED, [i \in Rows(t) |-> AirSpeed(t[i], wind_speed, wind_heading)])

\* the names add_air_speed differentiates: none
AirSpeedNames == {}

add_air_speed_raises(t, wind_speed, wind_heading) ==
    Differentials_Raises(WithAirSpeed(t, wind_speed, wind_heading), AIR_SPEED, AirSpeedNames)

add_air_speed(t, wind_speed, wind_heading) ==
    Differentials_(WithAirSpeed(t, wind_speed, wind_heading), AIR_SPEED, AirSpeedNames)

(***************************************************************************)
(* Energy budget                                                           *)
(***************************************************************************)
\* d_energy and loss are held in units of 1/EnergyDen J, so that
\* m * (ds2 / 2 + de * 9.8) and (cda * p * avg / 2 + crr) * dd are exact
EnergyDen == 24000

\* g = 9.8, as EnergyDen * g
GTimesDen == 235200

\* the budget taken from the average of the squared speed instead of its change
DeltaEnergyFromAvg(row, m) ==
    IF IsNaN(row[AVG_SPEED_2]) \/ IsNaN(row[DELTA_ELEVATION]) THEN NaN
    ELSE Num(m * ((EnergyDen \div 2) * Val(row[AVG_SPEED_2])
                    + GTimesDen * Val(row[DELTA_ELEVATION])))

\* a budget added to the one the row already holds
DeltaEnergyAccumulated(row, m) ==
    IF IsNaN(row[DELTA_SPEED_2]) \/ IsNaN(row[DELTA_ELEVATION]) THEN NaN
    ELSE Num(m * ((EnergyDen \div 2) * Val(row[DELTA_SPEED_2])
                    + GTimesDen * Val(row[DELTA_ELEVATION]))
             + (IF DELTA_ENERGY \in DOMAIN row /\ ~IsNaN(row[DELTA_ENERGY])
                THEN Val(row[DELTA_ENERGY]) ELSE 0))

DeltaEnergy(row, m) ==
    IF IsNaN(row[DELTA_SPEED_2]) \/ IsNaN(row[DELTA_ELEVATION]) THEN NaN
    ELSE Num(m * ((EnergyDen \div 2) * Val(row[DELTA_SPEED_2])
                    + GTimesDen * Val(row[DELTA_ELEVATION])))

add_energy_budget(t, m) ==
    SetColumn(t, DELTA_ENERGY, [i \in Rows(t) |-> DeltaEnergy(t[i], m)])

(***************************************************************************)
(* SpecDiff: a table is differentiated, then handed through the first      *)
(* stages of evaluate (energy budget, air speed).                          *)
(***************************************************************************)
MaxRows == 4

\* the segment identifiers of the input
Timespans == {1, 2}

\* <<speed, elevation, latitude>> of a complete sample; longitude is constant,
\* so that every heading is a multiple of a quarter turn
Samples == {<<1, 0, 0>>, <<2, 1, 1>>}

\* rider + bike mass, wind <<speed, heading>> the stages are called with
Masses == {70}

Winds == {<<0, 0>>, <<2, 0>>, <<-1, 90>>}

InputColumns == {TIMESPAN_ID, SPEED, DISTANCE, ELEVATION, LATITUDE, LONGITUDE}

Sample(ts, s, e, lat) ==
    [c \in InputColumns |->
        CASE c = TIMESPAN_ID -> ts
          [] c = SPEED -> s
          [] c = ELEVATION -> e
          [] c = LATITUDE -> lat
          [] c = LONGITUDE -> Num(0)
          [] c = DISTANCE -> NaN]

\* a row of the input: a complete sample, a sample without speed, a sample
\* without elevation, or a row a resampler left entirely missing
InputRows ==
    {Sample(Num(ts), Num(x[1]), Num(x[2]), Num(x[3])) : ts \in Timespans, x \in Samples}
        \cup {Sample(Num(ts), NaN, Num(0), Num(0)) : ts \in Timespans}
        \cup {Sample(Num(ts), Num(1), NaN, Num(0)) : ts \in Timespans}
        \cup {Sample(NaN, NaN, NaN, NaN)}

\* the odometer: distance is the speed summed over the rows so far
RECURSIVE OdometerBetween(_, _, _)
OdometerBetween(t, lo, hi) ==
    IF lo > hi THEN 0
    ELSE IF lo = hi THEN (IF IsNaN(t[lo][SPEED]) THEN 0 ELSE Val(t[lo][SPEED]))
    ELSE OdometerBetween(t, lo, (lo + hi) \div 2)
            + OdometerBetween(t, ((lo + hi) \div 2) + 1, hi)

Odometer(t, i) == OdometerBetween(t, 1, i)

WithDistance(t) ==
    [i \in Rows(t) |->
        [t[i] EXCEPT ![DISTANCE] =
            IF IsNaN(t[i][TIMESPAN_ID]) THEN NaN ELSE Num(Odometer(t, i))]]

\* t is a table of 1..MaxRows input rows with its odometer
IsInputTable(t) ==
    \E n \in 1..MaxRows : \E rows \in [1..n -> InputRows] : t = WithDistance(rows)

InitOthersDiff ==
    /\ InitLater
    /\ pdf = <<>> /\ ppc = "off"
    /\ kargs = <<>> /\ trail = <<>>
    /\ fpc = "off" /\ vary = {} /\ best = 0 /\ model = <<>> /\ internal = <<>>
    /\ evaluated = <<>> /\ nevals = 0 /\ regressed = FALSE /\ fitcalled = FALSE
    /\ result = <<>>

InitDiff ==
    /\ IsInputTable(df)
    /\ pc = "input"
    /\ wind = <<>>
    /\ InitOthersDiff

\* ldf = add_differentials(ldf)
AddDifferentials ==
    /\ pc = "input"
    /\ IF add_differentials_raises(df)
       THEN pc' = "PowerException" /\ df' = df
       ELSE pc' = "differentials" /\ df' = add_differentials(df)
    /\ UNCHANGED <<wind, powerVars, transformVars, fitVars, laterVars>>

\* df = add_energy_budget(df, model.m)
AddEnergyBudget ==
    /\ pc = "differentials"
    /\ \E m \in Masses : df' = add_energy_budget(df, m)
    /\ pc' = "energy"
    /\ UNCHANGED <<wind, powerVars, transformVars, fitVars, laterVars>>

\* df = add_air_speed(df, model.wind_speed, model.wind_heading)
AddAirSpeed ==
    /\ pc = "energy"
    /\ \E w \in Winds :
        /\ wind' = w
        /\ IF add_air_speed_raises(df, w[1], w[2])
           THEN pc' = "PowerException" /\ df' = df
           ELSE pc' = "air" /\ df' = add_air_speed(df, w[1], w[2])
    /\ UNCHANGED <<powerVars, transformVars, fitVars, laterVars>>

NextDiff == AddDifferentials \/ AddEnergyBudget \/ AddAirSpeed

SpecDiff == InitDiff /\ [][NextDiff]_vars

(***************************************************************************)
(* Claims on the differentiator and the energy budget (SpecDiff)           *)
(***************************************************************************)
Differentiated == pc \in {"differentials", "energy", "air"}

\* the rows before i that carry the identifier of row i
Earlier(t, i) == {j \in 1..(i - 1) : t[j][TIMESPAN_ID] = t[i][TIMESPAN_ID]}

HasPrev(t, i) == ~IsNaN(t[i][TIMESPAN_ID]) /\ Earlier(t, i) # {}

\* the previous row of the segment of row i
Prev(t, i) == CHOOSE j \in Earlier(t, i) : \A k \in Earlier(t, i) : k <= j

\* the rows of the segment of row i
Segment(t, i) == {j \in Rows(t) : t[j][TIMESPAN_ID] = t[i][TIMESPAN_ID]}

\* the segment of row i has a missing value in one of the columns
Incomplete(t, i, names) == \E j \in Segment(t, i) : \E name \in names : IsNaN(t[j][name])

DeltaMissing(row) ==
    /\ \A name \in DifferentialNames : IsNaN(row[D_(name)])
    /\ IsNaN(row[AVG_SPEED_2])

\* C1: after add_differentials, a row that is the first of its segment (or in
\* no segment) has every delta and the average squared speed missing, and on
\* every other row each of them is either missing or computed from the row and
\* the previous row of the same segment, never from a row of another segment
C1_SegmentLocal ==
    Differentiated =>
        \A i \in Rows(df) :
            IF HasPrev(df, i)
            THEN /\ \A name \in DifferentialNames :
                        df[i][D_(name)] \in {NaN, Sub(df[i][name], df[Prev(df, i)][name])}
                 /\ df[i][AVG_SPEED_2]
                        \in {NaN, AvgSpeed2(df[Prev(df, i)][SPEED], df[i][SPEED])}
            ELSE DeltaMissing(df[i])

\* C1 witness: a differentiated table in which a row opens a new segment right
\* after a differentiated row of another segment with a different elevation
C1_Witness ==
    /\ pc = "differentials"
    /\ \E i \in 2..Len(df) :
        /\ ~IsNaN(df[i][TIMESPAN_ID]) /\ ~IsNaN(df[i - 1][TIMESPAN_ID])
        /\ df[i][TIMESPAN_ID] # df[i - 1][TIMESPAN_ID]
        /\ ~HasPrev(df, i)
        /\ ~IsNaN(df[i][ELEVATION]) /\ ~IsNaN(df[i - 1][ELEVATION])
        /\ df[i][ELEVATION] # df[i - 1][ELEVATION]
        /\ ~IsNaN(df[i - 1][DELTA_ELEVATION])
        /\ IsNaN(df[i][DELTA_ELEVATION])

\* the add_differentials half of C2: a segment with a missing required value
\* carries only missing deltas, every other segment is differentiated
SkipInDifferentials ==
    Differentiated =>
        \A i \in Rows(df) :
            IF IsNaN(df[i][TIMESPAN_ID]) \/ Incomplete(df, i, DifferentialNames)
            THEN DeltaMissing(df[i]) /\ IsNaN(df[i][HEADING])
            ELSE IF HasPrev(df, i)
            THEN /\ \A name \in DifferentialNames :
                        /\ ~IsNaN(df[i][D_(name)])
                        /\ df[i][D_(name)] = Sub(df[i][name], df[Prev(df, i)][name])
                 /\ ~IsNaN(df[i][AVG_SPEED_2])
            ELSE DeltaMissing(df[i])

\* add_differentials raises exactly when every segment is skipped
RaiseInDifferentials ==
    /\ (pc = "PowerException" /\ wind = <<>>) =>
            \A i \in Rows(df) :
                IsNaN(df[i][TIMESPAN_ID]) \/ Incomplete(df, i, DifferentialNames \ {SPEED_2})
    /\ Differentiated =>
            \E i \in Rows(df) :
                ~IsNaN(df[i][TIMESPAN_ID]) /\ ~Incomplete(df, i, DifferentialNames)

\* C2 as claimed: add_air_speed too skips a segment in which the air speed is
\* missing on any row
C2_AirSpeedSkips ==
    /\ SkipInDifferentials
    /\ RaiseInDifferentials
    /\ pc = "air" =>
            \A i \in Rows(df) :
                (IsNaN(df[i][TIMESPAN_ID]) \/ Incomplete(df, i, {AIR_SPEED}))
                    => IsNaN(df[i][AVG_AIR_SPEED_2])

\* C2 amended: add_differentials skips a segment with a missing required value
\* and raises when it skips them all; add_air_speed requires no column, skips
\* no segment (the average squared air speed of a row is that of the row and its
\* predecessor in the segment, missing when either air speed is) and does not
\* raise on a differentiated table
C2_SkipOnlyInDifferentials ==
    /\ SkipInDifferentials
    /\ RaiseInDifferentials
    /\ pc = "air" =>
            \A i \in Rows(df) :
                df[i][AVG_AIR_SPEED_2] =
                    IF HasPrev(df, i)
                    THEN AvgSpeed2(df[Prev(df, i)][AIR_SPEED], df[i][AIR_SPEED])
                    ELSE NaN
    /\ pc = "PowerException" => wind = <<>>

\* C2 witness: after add_air_speed, one segment was skipped by add_differentials
\* and another, whose first row has no air speed, has a row with an average
\* squared air speed
C2_Witness ==
    /\ pc = "air"
    /\ \E i \in Rows(df) :
        ~IsNaN(df[i][TIMESPAN_ID]) /\ Incomplete(df, i, DifferentialNames)
    /\ \E i \in Rows(df) :
        /\ ~IsNaN(df[i][AVG_AIR_SPEED_2])
        /\ Incomplete(df, i, {AIR_SPEED})

\* df[name].sum(): missing cells are skipped
RECURSIVE SumColumn(_, _, _)
SumColumn(t, name, i) ==
    IF i = 0 THEN 0
    ELSE SumColumn(t, name, i - 1) + (IF IsNaN(t[i][name]) THEN 0 ELSE Val(t[i][name]))

\* first and last sample have the same elevation and the same speed
ClosedLoop(t) ==
    /\ ~IsNaN(t[1][ELEVATION]) /\ ~IsNaN(t[1][SPEED])
    /\ t[1][ELEVATION] = t[Len(t)][ELEVATION]
    /\ t[1][SPEED] = t[Len(t)][SPEED]

\* the whole table is one segment without a missing value
OneSegment(t) ==
    \A i \in Rows(t) :
        /\ t[i][TIMESPAN_ID] = t[1][TIMESPAN_ID]
        /\ ~IsNaN(t[i][TIMESPAN_ID])
        /\ ~Incomplete(t, i, DifferentialNames)

HasEnergy == pc \in {"energy", "air"}

\* C6 as claimed: on a closed loop the delta energies sum to zero, however the
\* activity is split into segments
C6_ClosedLoopAnySegments ==
    (HasEnergy /\ ClosedLoop(df)) => SumColumn(df, DELTA_ENERGY, Len(df)) = 0

\* C6 amended: on a closed loop that is a single segment without missing
\* values the delta energies sum to zero
C6_ClosedLoopOneSegment ==
    (HasEnergy /\ ClosedLoop(df) /\ OneSegment(df))
        => SumColumn(df, DELTA_ENERGY, Len(df)) = 0

\* C6 witness: a closed loop of one segment whose rows gain and lose energy
C6_Witness ==
    /\ pc = "energy"
    /\ ClosedLoop(df) /\ OneSegment(df)
    /\ \E i \in Rows(df) : ~IsNaN(df[i][DELTA_ENERGY]) /\ Val(df[i][DELTA_ENERGY]) > 0
    /\ \E i \in Rows(df) : ~IsNaN(df[i][DELTA_ENERGY]) /\ Val(df[i][DELTA_ENERGY]) < 0

(***************************************************************************)
(* add_power_estimate                                                      *)
(***************************************************************************)
\* the elapsed times between rows, in seconds
DeltaTimes == {1, 2}

\* power and energy are held in units of 1/PowerDen: the least number every
\* elapsed time divides, so that (d_energy + loss) / d_time is exact
PowerDen == CHOOSE n \in 1..720 :
    /\ \A d \in DeltaTimes : n % d = 0
    /\ \A k \in 1..(n - 1) : \E d \in DeltaTimes : k % d # 0

\* (df[DELTA_ENERGY] + df[LOSS]) / df[DELTA_TIME].dt.total_seconds()
RawPower(row) ==
    IF IsNaN(row[DELTA_ENERGY]) \/ IsNaN(row[LOSS]) \/ IsNaN(row[DELTA_TIME]) THEN NaN
    ELSE Num((Val(row[DELTA_ENERGY]) + Val(row[LOSS])) * (PowerDen \div Val(row[DELTA_TIME])))

\* a clip that lets negative values through
ClipNothing(c) == c

\* df[POWER].clip(lower=0, inplace=True)
Clip(c) == IF IsNaN(c) THEN NaN ELSE IF Val(c) < 0 THEN Num(0) ELSE c

\* a test that also selects the rows whose cadence is missing
FreewheelingOrMissing(t, i) ==
    CADENCE \in Columns(t) /\ (IsNaN(t[i][CADENCE]) \/ Val(t[i][CADENCE]) < 1)

\* CADENCE in df.columns, and the row is selected by df[CADENCE] < 1
Freewheeling(t, i) ==
    CADENCE \in Columns(t) /\ ~IsNaN(t[i][CADENCE]) /\ Val(t[i][CADENCE]) < 1

\* df.loc[df[POWER].isna(), [POWER]] = 0
FillZero(c) == IF IsNaN(c) THEN Num(0) ELSE c

\* the POWER cell of row i
PowerCell(t, i) ==
    FillZero(IF Freewheeling(t, i) THEN Num(0) ELSE Clip(RawPower(t[i])))

\* df[POWER].iloc[1:] * df[DELTA_TIME].iloc[1:], at row i >= 2
EnergyTerm(t, i) == Mul(PowerCell(t, i), t[i][DELTA_TIME])

\* .cumsum() over the rows 2..i: missing terms are skipped
RECURSIVE CumSumBetween(_, _, _)
CumSumBetween(t, lo, hi) ==
    IF lo > hi THEN 0
    ELSE IF lo = hi THEN (IF IsNaN(EnergyTerm(t, lo)) THEN 0 ELSE Val(EnergyTerm(t, lo)))
    ELSE CumSumBetween(t, lo, (lo + hi) \div 2)
            + CumSumBetween(t, ((lo + hi) \div 2) + 1, hi)

CumSum(t, i) == CumSumBetween(t, 2, i)

\* df[ENERGY] = 0; df.loc[1:, [ENERGY]] = energy: the cumulative sum is
\* missing where its term is
EnergyCell(t, i) ==
    IF i = 1 THEN Num(0)
    ELSE IF IsNaN(EnergyTerm(t, i)) THEN NaN
    ELSE Num(CumSum(t, i))

add_power_estimate(t) ==
    [i \in Rows(t) |->
        [c \in Columns(t) \cup {POWER, ENERGY} |->
            IF c = POWER THEN PowerCell(t, i)
            ELSE IF c = ENERGY THEN EnergyCell(t, i)
            ELSE t[i][c]]]

(***************************************************************************)
(* SpecPower: add_power_estimate applied to a table of any delta energy,   *)
(* loss, elapsed time and cadence                                          *)
(***************************************************************************)
MaxPowerRows == 3

\* <<d_energy, loss, d_time>> of a row, and the cadences
Budgets ==
    {<<Num(-3), Num(1), Num(1)>>, <<Num(1), Num(1), Num(1)>>, <<NaN, Num(1), Num(1)>>,
     <<Num(1), Num(1), Num(2)>>, <<NaN, NaN, NaN>>}

Cadences == {NaN, Num(0), Num(80)}

PowerRow(b, cadence, columns) ==
    [c \in columns |->
        CASE c = DELTA_ENERGY -> b[1]
          [] c = LOSS -> b[2]
          [] c = DELTA_TIME -> b[3]
          [] c = CADENCE -> cadence]

PowerColumns == {DELTA_ENERGY, LOSS, DELTA_TIME}

\* rows of a table with, and of a table without, a cadence column
PowerRows(withCadence) ==
    IF withCadence
    THEN {PowerRow(b, c, PowerColumns \cup {CADENCE}) : b \in Budgets, c \in Cadences}
    ELSE {PowerRow(b, NaN, PowerColumns) : b \in Budgets}

InitOthersPower ==
    /\ InitLater
    /\ df = <<>> /\ pc = "off" /\ wind = <<>>
    /\ kargs = <<>> /\ trail = <<>>
    /\ fpc = "off" /\ vary = {} /\ best = 0 /\ model = <<>> /\ internal = <<>>
    /\ evaluated = <<>> /\ nevals = 0 /\ regressed = FALSE /\ fitcalled = FALSE
    /\ result = <<>>

InitPower ==
    /\ \E n \in 1..MaxPowerRows : \E withCadence \in BOOLEAN :
        pdf \in [1..n -> PowerRows(withCadence)]
    /\ ppc = "input"
    /\ InitOthersPower

\* df = add_power_estimate(df)
AddPowerEstimate ==
    /\ ppc = "input"
    /\ pdf' = add_power_estimate(pdf)
    /\ ppc' = "done"
    /\ UNCHANGED <<diffVars, transformVars, fitVars, laterVars>>

NextPower == AddPowerEstimate

SpecPower == InitPower /\ [][NextPower]_vars

(***************************************************************************)
(* Claims on add_power_estimate (SpecPower)                                *)
(***************************************************************************)
HasCadence(t, i) == CADENCE \in Columns(t) /\ ~IsNaN(t[i][CADENCE])

\* C3: after add_power_estimate the power of every row is a number, not
\* negative, and zero on every row whose cadence is below 1
C3_PowerNonNegative ==
    ppc = "done" =>
        \A i \in Rows(pdf) :
            /\ ~IsNaN(pdf[i][POWER])
            /\ Val(pdf[i][POWER]) >= 0
            /\ (HasCadence(pdf, i) /\ Val(pdf[i][CADENCE]) < 1) => pdf[i][POWER] = Num(0)

\* C3 witness: a row whose budget is negative, a row that freewheels on a
\* positive budget and a row without elapsed time, all with power zero
C3_Witness ==
    /\ ppc = "done"
    /\ \E i \in Rows(pdf) :
        /\ ~IsNaN(RawPower(pdf[i])) /\ Val(RawPower(pdf[i])) < 0
        /\ HasCadence(pdf, i) /\ Val(pdf[i][CADENCE]) >= 1
        /\ pdf[i][POWER] = Num(0)
    /\ \E i \in Rows(pdf) :
        /\ ~IsNaN(RawPower(pdf[i])) /\ Val(RawPower(pdf[i])) > 0
        /\ HasCadence(pdf, i) /\ Val(pdf[i][CADENCE]) < 1
        /\ pdf[i][POWER] = Num(0)
    /\ \E i \in Rows(pdf) : IsNaN(pdf[i][DELTA_TIME]) /\ pdf[i][POWER] = Num(0)

\* C4 as claimed: power is zero wherever cadence is absent (missing, or no
\* cadence column) or zero, and wherever the computed power is undefined
C4_ZeroWhenCadenceAbsent ==
    ppc = "done" =>
        \A i \in Rows(pdf) :
            (\/ ~HasCadence(pdf, i)
             \/ pdf[i][CADENCE] = Num(0)
             \/ IsNaN(RawPower(pdf[i]))) => pdf[i][POWER] = Num(0)

\* C4 amended: power is zero wherever cadence is present and below 1 and
\* wherever the computed power is undefined; on a row whose cadence is absent
\* (missing, or no cadence column) and whose computed power is defined, the
\* power is the computed power, or zero when that is negative
C4_ZeroWhenCadencePresentAndLow ==
    ppc = "done" =>
        \A i \in Rows(pdf) :
            /\ (\/ (HasCadence(pdf, i) /\ Val(pdf[i][CADENCE]) < 1)
                \/ IsNaN(RawPower(pdf[i]))) => pdf[i][POWER] = Num(0)
            /\ (~HasCadence(pdf, i) /\ ~IsNaN(RawPower(pdf[i]))) =>
                    pdf[i][POWER] =
                        IF Val(RawPower(pdf[i])) < 0 THEN Num(0) ELSE RawPower(pdf[i])

\* C4 witness: a table with a cadence column in which a row without cadence
\* keeps a positive power and a row with cadence zero has none
C4_Witness ==
    /\ ppc = "done"
    /\ CADENCE \in Columns(pdf)
    /\ \E i \in Rows(pdf) : IsNaN(pdf[i][CADENCE]) /\ Val(pdf[i][POWER]) > 0
    /\ \E i \in Rows(pdf) :
        /\ pdf[i][CADENCE] = Num(0)
        /\ ~IsNaN(RawPower(pdf[i])) /\ Val(RawPower(pdf[i])) > 0
        /\ pdf[i][POWER] = Num(0)

\* the sum over the rows 2..k of power times elapsed time, a row without
\* elapsed time adding nothing
RECURSIVE RunningEnergy(_, _)
RunningEnergy(t, k) ==
    IF k < 2 THEN 0
    ELSE RunningEnergy(t, k - 1)
            + (IF IsNaN(t[k][DELTA_TIME]) THEN 0
               ELSE Val(t[k][POWER]) * Val(t[k][DELTA_TIME]))

\* C5: cumulative energy is zero on the first row and on every later row k
\* is the sum of power times elapsed time over the rows up to k, also in
\* tables with rows that have no elapsed time
C5_RunningEnergy ==
    ppc = "done" =>
        /\ pdf[1][ENERGY] = Num(0)
        /\ \A k \in 2..Len(pdf) : pdf[k][ENERGY] = Num(RunningEnergy(pdf, k))

\* what holds instead: the running sum on the rows that have an elapsed time,
\* a missing value on the later rows that have none
C5_RunningEnergyExceptGaps ==
    ppc = "done" =>
        /\ pdf[1][ENERGY] = Num(0)
        /\ \A k \in 2..Len(pdf) :
            pdf[k][ENERGY] =
                IF IsNaN(pdf[k][DELTA_TIME]) THEN NaN ELSE Num(RunningEnergy(pdf, k))

(***************************************************************************)
(* fit_power: the delay transforms                                         *)
(***************************************************************************)
MIN_DELAY == 1

\* a dict with one entry rewritten, when it has that entry
Rewrite(d, name, v) == [k \in DOMAIN d |-> IF k = name THEN v ELSE d[k]]

\* forwards(kargs)
forwards(d) ==
    IF "delay" \in DOMAIN d THEN Rewrite(d, "delay", d["delay"] - MIN_DELAY) ELSE d

\* a backwards that forgets the absolute value
backwardsNoAbs(d) ==
    IF "delay" \in DOMAIN d THEN Rewrite(d, "delay", d["delay"] + MIN_DELAY) ELSE d

\* backwards(kargs)
backwards(d) ==
    IF "delay" \in DOMAIN d THEN Rewrite(d, "delay", Abs(d["delay"]) + MIN_DELAY) ELSE d

(***************************************************************************)
(* SpecTransform: forwards and backwards applied, in any order, to a dict  *)
(* of parameter values                                                     *)
(***************************************************************************)
MaxInternal == 3

MaxTransforms == 4

\* the values a parameter takes in the optimizer's space and outside it
Values == -MaxInternal..MaxInternal

TransformNames == {"delay", "wind_speed"}

InitOthersTransform ==
    /\ InitLater
    /\ df = <<>> /\ pc = "off" /\ wind = <<>>
    /\ pdf = <<>> /\ ppc = "off"
    /\ fpc = "off" /\ vary = {} /\ best = 0 /\ model = <<>> /\ internal = <<>>
    /\ evaluated = <<>> /\ nevals = 0 /\ regressed = FALSE /\ fitcalled = FALSE
    /\ result = <<>>

InitTransform ==
    /\ \E names \in SUBSET TransformNames : kargs \in [names -> Values]
    /\ trail = <<[op |-> "given", out |-> kargs]>>
    /\ InitOthersTransform

Forwards ==
    /\ Len(trail) <= MaxTransforms
    /\ kargs' = forwards(kargs)
    /\ trail' = Append(trail, [op |-> "forwards", out |-> kargs'])
    /\ UNCHANGED <<diffVars, powerVars, fitVars, laterVars>>

Backwards ==
    /\ Len(trail) <= MaxTransforms
    /\ kargs' = backwards(kargs)
    /\ trail' = Append(trail, [op |-> "backwards", out |-> kargs'])
    /\ UNCHANGED <<diffVars, powerVars, fitVars, laterVars>>

NextTransform == Forwards \/ Backwards

SpecTransform == InitTransform /\ [][NextTransform]_vars

\* the steps i+1, i+2 of the trail are the transforms a then b
Applied(i, a, b) ==
    /\ i + 2 <= Len(trail)
    /\ trail[i + 1].op = a
    /\ trail[i + 2].op = b

\* C8: backwards yields a delay >= MIN_DELAY; backwards after forwards, and
\* forwards after backwards, applied twice give what they give applied once;
\* backwards after forwards gives back a delay >= MIN_DELAY; no transform
\* touches a parameter other than delay
C8_DelayTransforms ==
    \A i \in 1..Len(trail) :
        /\ (trail[i].op = "backwards" /\ "delay" \in DOMAIN trail[i].out)
                => trail[i].out["delay"] >= MIN_DELAY
        /\ (Applied(i, "forwards", "backwards") /\ Applied(i + 2, "forwards", "backwards"))
                => trail[i + 4].out = trail[i + 2].out
        /\ (Applied(i, "backwards", "forwards") /\ Applied(i + 2, "backwards", "forwards"))
                => trail[i + 4].out = trail[i + 2].out
        /\ (/\ Applied(i, "forwards", "backwards")
            /\ "delay" \in DOMAIN trail[i].out
            /\ trail[i].out["delay"] >= MIN_DELAY) => trail[i + 2].out = trail[i].out
        /\ i > 1 =>
            /\ DOMAIN trail[i].out = DOMAIN trail[i - 1].out
            /\ \A name \in DOMAIN trail[i].out \ {"delay"} :
                    trail[i].out[name] = trail[i - 1].out[name]

\* C8 witness: from a negative delay beside another parameter, forwards then
\* backwards was applied twice and the first round changed the delay
C8_Witness ==
    /\ Len(trail) = 5
    /\ DOMAIN trail[1].out = TransformNames
    /\ trail[1].out["delay"] < 0
    /\ Applied(1, "forwards", "backwards") /\ Applied(3, "forwards", "backwards")
    /\ trail[3].out["delay"] # trail[1].out["delay"]

(***************************************************************************)
(* fit_power                                                               *)
(***************************************************************************)
\* PowerModel, with its defaults
PowerModel ==
    [cda |-> 0, crr |-> 0, slope |-> 0, intercept |-> 0, window |-> 60 * 60,
     delay |-> 40, m |-> 70, wind_speed |-> 0, wind_heading |-> 0]

\* model._replace(**d)
Replace(mdl, d) == [f \in DOMAIN mdl |-> IF f \in DOMAIN d THEN d[f] ELSE mdl[f]]

\* a guard that also rejects a delay of zero
ScalingRaisesOnZero(delay) == delay <= 0

\* measure_initial_scaling: if delay < 0: raise PowerException
ScalingRaises(delay) == delay < 0

\* what sp.stats.linregress may return as <<slope, intercept>>
Regressions == {<<1, 60>>, <<2, 0>>}

\* the normalisation without the final reduction of the heading
FixWindNoModulo(mdl) ==
    IF mdl.wind_speed < 0
    THEN Replace(mdl, [wind_speed |-> Abs(mdl.wind_speed),
                       wind_heading |-> mdl.wind_heading + 180])
    ELSE mdl

\* the lines after fit() in fit_power: a negative wind speed is negated and
\* the heading turned by 180, then the heading is reduced modulo 360
FixWind(mdl) ==
    LET turned == IF mdl.wind_speed < 0
                  THEN Replace(mdl, [wind_speed |-> Abs(mdl.wind_speed),
                                     wind_heading |-> mdl.wind_heading + 180])
                  ELSE mdl
    IN  Replace(turned, [wind_heading |-> turned.wind_heading % 360])

\* fit(): the dict of the varied names, taken from the model and passed
\* through forwards
FitInitial(mdl, names) == forwards([name \in names |-> mdl[name]])

\* fit(): the model a trial is evaluated with, and the model returned
FitModel(mdl, d) == Replace(mdl, backwards(d))

\* .ewm(halflife=delay) in add_modeled_hr raises ValueError unless halflife > 0
EwmRaises(delay) == delay <= 0

(***************************************************************************)
(* SpecFit: fit_power from the call to the return                          *)
(***************************************************************************)
MaxLag == 2

MaxEvals == 2

VaryNames == {"delay", "wind_speed", "wind_heading"}

\* the values the optimizer may try for a parameter
Trials(name) ==
    IF name = "wind_heading" THEN {150 * v : v \in Values} ELSE Values

\* the dicts the optimizer may try
TrialDicts(names) == {d \in [names -> Values \cup Trials("wind_heading")] :
                        \A name \in names : d[name] \in Trials(name)}

\* the wind of the model fit_power is called with
InitialWinds == {<<0, 0>>, <<10, 180>>, <<-2, 400>>}

InitOthersFit ==
    /\ InitLater
    /\ df = <<>> /\ pc = "off" /\ wind = <<>>
    /\ pdf = <<>> /\ ppc = "off"
    /\ kargs = <<>> /\ trail = <<>>

InitFit ==
    /\ fpc = "start"
    /\ vary \in (SUBSET VaryNames) \ {{}}
    /\ best \in -MaxLag..MaxLag
    /\ \E w \in InitialWinds :
        model = Replace(PowerModel, [wind_speed |-> w[1], wind_heading |-> w[2]])
    /\ internal = <<>>
    /\ evaluated = <<>>
    /\ nevals = 0
    /\ regressed = FALSE
    /\ fitcalled = FALSE
    /\ result = <<>>
    /\ InitOthersFit

\* slope, intercept, delay = measure_initial_scaling(df), then model._replace
MeasureInitialScaling ==
    /\ fpc = "start"
    /\ IF ScalingRaises(best)
       THEN /\ fpc' = "PowerException"
            /\ UNCHANGED <<model, regressed>>
       ELSE /\ \E r \in Regressions :
                model' = Replace(model, [slope |-> r[1], intercept |-> r[2], delay |-> best])
            /\ regressed' = TRUE
            /\ fpc' = "seeded"
    /\ UNCHANGED <<vary, best, internal, evaluated, nevals, fitcalled, result>>
    /\ UNCHANGED <<diffVars, powerVars, transformVars, laterVars>>

\* fit(...) is entered
FitCall ==
    /\ fpc = "seeded"
    /\ fitcalled' = TRUE
    /\ internal' = FitInitial(model, vary)
    /\ fpc' = "fitting"
    /\ UNCHANGED <<vary, best, model, evaluated, nevals, regressed, result>>
    /\ UNCHANGED <<diffVars, powerVars, transformVars, laterVars>>

\* fit() evaluates a candidate: evaluate_and_extend(df, model); the first
\* candidate is the initial dict, the later ones are the optimizer's choice
FitTrial ==
    /\ fpc = "fitting"
    /\ nevals < MaxEvals
    /\ \E d \in (IF nevals = 0 THEN {internal} ELSE TrialDicts(vary)) :
        /\ internal' = d
        /\ evaluated' = FitModel(model, d)
        /\ fpc' = IF EwmRaises(FitModel(model, d).delay) THEN "ValueError" ELSE "fitting"
    /\ nevals' = nevals + 1
    /\ UNCHANGED <<vary, best, model, regressed, fitcalled, result>>
    /\ UNCHANGED <<diffVars, powerVars, transformVars, laterVars>>

\* fit() returns the model of the last candidate
FitReturn ==
    /\ fpc = "fitting"
    /\ nevals > 0
    /\ model' = FitModel(model, internal)
    /\ fpc' = "fitted"
    /\ UNCHANGED <<vary, best, internal, evaluated, nevals, regressed, fitcalled, result>>
    /\ UNCHANGED <<diffVars, powerVars, transformVars, laterVars>>

\* the wind is normalised and the model returned
FixAndReturn ==
    /\ fpc = "fitted"
    /\ result' = FixWind(model)
    /\ fpc' = "returned"
    /\ UNCHANGED <<vary, best, model, internal, evaluated, nevals, regressed, fitcalled>>
    /\ UNCHANGED <<diffVars, powerVars, transformVars, laterVars>>

NextFit == MeasureInitialScaling \/ FitCall \/ FitTrial \/ FitReturn \/ FixAndReturn

SpecFit == InitFit /\ [][NextFit]_vars

(***************************************************************************)
(* Claims on fit_power (SpecFit)                                           *)
(***************************************************************************)
\* C7: every model passed to the re-evaluation function during fit_power, and
\* the model fit_power returns, has a delay >= MIN_DELAY
C7_DelayAtLeastMin ==
    /\ nevals > 0 => evaluated.delay >= MIN_DELAY
    /\ fpc = "returned" => result.delay >= MIN_DELAY

\* what holds instead: the bound holds when 'delay' is among the varied names
\* or the seed delay is itself >= MIN_DELAY
C7_DelayAtLeastMinWhenVaried ==
    ("delay" \in vary \/ best >= MIN_DELAY) => C7_DelayAtLeastMin

\* C9: the returned model has wind speed >= 0 and wind heading in [0, 360); a
\* negative fitted wind speed is returned negated with the heading turned by
\* 180, any other is returned as fitted, and the heading is only reduced
\* modulo 360
C9_WindNormalised ==
    fpc = "returned" =>
        /\ result.wind_speed >= 0
        /\ result.wind_heading >= 0 /\ result.wind_heading < 360
        /\ result.wind_speed = (IF model.wind_speed < 0 THEN -model.wind_speed
                                ELSE model.wind_speed)
        /\ \E k \in -3..3 :
            result.wind_heading =
                model.wind_heading + (IF model.wind_speed < 0 THEN 180 ELSE 0) + 360 * k
        /\ \A f \in DOMAIN model \ {"wind_speed", "wind_heading"} : result[f] = model[f]

\* C9 witness: a fitted wind speed below zero with a heading that, turned by
\* 180, leaves [0, 360)
C9_Witness ==
    /\ fpc = "returned"
    /\ "wind_speed" \in vary /\ "wind_heading" \in vary
    /\ model.wind_speed < 0
    /\ model.wind_heading + 180 >= 360
    /\ result.wind_heading # model.wind_heading + 180

\* C10: measure_initial_scaling raises PowerException exactly when the best
\* delay is negative, then without a regression and before the fitting
\* primitive is invoked; otherwise it computes the regression and seeds the
\* model with that same delay
C10_NegativeDelayRaises ==
    /\ fpc # "start" => ((fpc = "PowerException") <=> (best < 0))
    /\ fpc = "PowerException" => (~regressed /\ ~fitcalled /\ nevals = 0 /\ result = <<>>)
    /\ fpc = "seeded" => (regressed /\ model.delay = best /\ best >= 0)
    /\ fitcalled => regressed

\* C10 witness: a best delay of zero seeded the model
C10_Witness ==
    /\ fpc = "seeded"
    /\ best = 0
    /\ model.delay = 0

\* C10 witness of the other case: a negative best delay raised
C10_WitnessRaised ==
    /\ fpc = "PowerException"
    /\ best < 0

(***************************************************************************)
(* measure_initial_delay: the lag of power that correlates best with       *)
(* heart rate.  The index of the table is uniform with spacing dt, so      *)
(* shifting a column by i * dt seconds moves it by i rows.                 *)
(***************************************************************************)
HEART_RATE == "heart_rate"

\* df[col2].shift(freq=f'{i * dt}S'), aligned with df[col1]: the rows k at
\* which both the heart rate and the power of i rows earlier exist
Overlap(t, i) ==
    {k \in 1..Len(t) :
        /\ k - i \in 1..Len(t)
        /\ ~IsNaN(t[k][HEART_RATE])
        /\ ~IsNaN(t[k - i][POWER])}

RECURSIVE SumOver(_, _, _)
SumOver(f, S, k) ==
    IF k = 0 THEN 0
    ELSE SumOver(f, S, k - 1) + (IF k \in S THEN f[k] ELSE 0)

\* Series.corr (Pearson) of heart rate with the shifted power.  The value is
\* cov / sqrt(var1 * var2); it is kept exactly as <<n^2 cov, n^4 var1 var2>>
\* and is NaN when a variance is zero or fewer than two rows overlap.
Corr(t, i) ==
    LET S == Overlap(t, i)
        X == [k \in S |-> Val(t[k][HEART_RATE])]
        Y == [k \in S |-> Val(t[k - i][POWER])]
        XX == [k \in S |-> X[k] * X[k]]
        YY == [k \in S |-> Y[k] * Y[k]]
        XY == [k \in S |-> X[k] * Y[k]]
        n == Cardinality(S)
        L == Len(t)
        cov == n * SumOver(XY, S, L) - SumOver(X, S, L) * SumOver(Y, S, L)
        var1 == n * SumOver(XX, S, L) - SumOver(X, S, L) * SumOver(X, S, L)
        var2 == n * SumOver(YY, S, L) - SumOver(Y, S, L) * SumOver(Y, S, L)
    IN  IF var1 * var2 = 0 THEN NaN ELSE <<cov, var1 * var2>>

\* the signed square of a correlation is SignedSquare / its second component
SignedSquare(c) == IF c[1] < 0 THEN 0 - c[1] * c[1] ELSE c[1] * c[1]

\* a < b on floats: false when either is NaN
IsLt(a, b) ==
    /\ ~IsNaN(a)
    /\ ~IsNaN(b)
    /\ SignedSquare(a) * b[2] < SignedSquare(b) * a[2]

\* a == b on floats
IsEq(a, b) ==
    /\ ~IsNaN(a)
    /\ ~IsNaN(b)
    /\ SignedSquare(a) * b[2] = SignedSquare(b) * a[2]

\* correln = [(i, corr) for i in range(-n, n+1)]
Correln(t, n) == [j \in 1..(2 * n + 1) |-> <<j - n - 1, Corr(t, j - n - 1)>>]

Reverse(s) == [j \in 1..Len(s) |-> s[Len(s) + 1 - j]]

\* list.sort's count_run: the length of the run the list starts with
RECURSIVE RunEnd(_, _, _)
RunEnd(s, j, descending) ==
    IF j > Len(s) THEN Len(s)
    ELSE IF IsLt(s[j][2], s[j - 1][2]) = descending THEN RunEnd(s, j + 1, descending)
    ELSE j - 1

Descending(s) == Len(s) >= 2 /\ IsLt(s[2][2], s[1][2])

CountRun(s) == IF Len(s) < 2 THEN Len(s) ELSE RunEnd(s, 3, Descending(s))

\* list.sort's binarysort: where the pivot goes among the first r elements
RECURSIVE BinarySearch(_, _, _, _)
BinarySearch(s, pivot, l, r) ==
    IF l >= r THEN l
    ELSE LET p == l + ((r - l) \div 2)
         IN  IF IsLt(pivot[2], s[p + 1][2])
             THEN BinarySearch(s, pivot, l, p)
             ELSE BinarySearch(s, pivot, p + 1, r)

RECURSIVE BinarySort(_, _)
BinarySort(s, start) ==
    IF start >= Len(s) THEN s
    ELSE LET pivot == s[start + 1]
             l == BinarySearch(s, pivot, 0, start)
         IN  BinarySort(SubSeq(s, 1, l) \o <<pivot>> \o SubSeq(s, l + 1, start)
                            \o SubSeq(s, start + 2, Len(s)),
                        start + 1)

\* list.sort of a list shorter than 64: the first run, reversed if it
\* descends, then binary insertion of the rest
ListSort(s) ==
    LET run == CountRun(s)
        first == IF Descending(s)
                 THEN Reverse(SubSeq(s, 1, run)) \o SubSeq(s, run + 1, Len(s))
                 ELSE s
    IN  BinarySort(first, run)

\* a descending sort that is not stable
SortedUnstable(s) == Reverse(ListSort(s))

\* sorted(correln, key=lambda c: c[1], reverse=True): list.sort reverses the
\* list before and after an ascending sort
Sorted(s) == Reverse(ListSort(Reverse(s)))

\* correln = sorted(...); return dt * correln[0][0]
FirstLag(dt, s) == dt * Sorted(s)[1][1]

measure_initial_delay(t, dt, n) == FirstLag(dt, Correln(t, n))

(***************************************************************************)
(* SpecDelay: measure_initial_delay on short tables                        *)
(***************************************************************************)
MaxSamples == 3
MaxN == 2
HeartRates == {1, 2, 3}
Powers == {0, 1, 2}

oldVars == <<diffVars, powerVars, transformVars, fitVars>>

\* the variables of the specifications above, none of which is running
OldOff ==
    /\ df = <<>> /\ pc = "off" /\ wind = <<>>
    /\ pdf = <<>> /\ ppc = "off"
    /\ kargs = <<>> /\ trail = <<>>
    /\ fpc = "off" /\ vary = {} /\ best = 0 /\ model = <<>> /\ internal = <<>>
    /\ evaluated = <<>> /\ nevals = 0 /\ regressed = FALSE /\ fitcalled = FALSE
    /\ result = <<>>

InitOthersDelay == OldOff /\ EvalOff /\ ResampleOff /\ CalcOff /\ TabsOff /\ GarminOff

InitDelay ==
    /\ \E len \in 2..MaxSamples :
        ddf \in [1..len -> {[c \in {HEART_RATE, POWER} |->
                                IF c = HEART_RATE THEN Num(h) ELSE Num(p)] :
                            h \in HeartRates, p \in Powers}]
    /\ dn \in 1..MaxN
    /\ ddt \in DeltaTimes
    /\ dpc = "input"
    /\ correln = <<>>
    /\ initial_delay = 0
    /\ InitOthersDelay

\* measure_initial_delay(df, dt=dt, n=n)
MeasureInitialDelay ==
    /\ dpc = "input"
    /\ correln' = Correln(ddf, dn)
    /\ initial_delay' = FirstLag(ddt, correln')
    /\ dpc' = "done"
    /\ UNCHANGED <<ddf, dn, ddt, oldVars, evalVars, resampleVars, calcVars, tabVars, garminVars>>

NextDelay == MeasureInitialDelay

SpecDelay == InitDelay /\ [][NextDelay]_vars

Lags == (0 - dn)..dn

\* the correlation the list holds for lag i
CorrAt(i) == correln[i + dn + 1][2]

AllDefined == \A i \in Lags : ~IsNaN(CorrAt(i))

\* no candidate correlates better than lag i, whose correlation is defined
\* if any is
Maximal(i) ==
    /\ \A j \in Lags : ~IsLt(CorrAt(i), CorrAt(j))
    /\ (\E j \in Lags : ~IsNaN(CorrAt(j))) => ~IsNaN(CorrAt(i))

\* the heart rate is power * slope + intercept on every row, slope positive
Linear ==
    \E slope \in 1..2 : \E intercept \in 0..3 :
        \A k \in 1..Len(ddf) :
            Val(ddf[k][HEART_RATE]) = slope * Val(ddf[k][POWER]) + intercept

\* C11 as stated: the result is dt times a lag of maximal correlation, the
\* smallest of those that tie, and is 0 when the heart rate is a linear
\* function of the power with zero lag
C11_MaximalLag ==
    dpc = "done" =>
        /\ Len(correln) = 2 * dn + 1
        /\ \E i \in Lags :
            /\ initial_delay = ddt * i
            /\ Maximal(i)
            /\ \A j \in Lags : j < i => ~IsEq(CorrAt(j), CorrAt(i))
        /\ Linear => initial_delay = 0

\* C11: measure_initial_delay evaluates the lags -n..n and returns dt times
\* the lag that comes first after the stable descending sort.  When every
\* candidate's correlation is defined, that lag has maximal correlation and
\* is the smallest of the lags that tie for it; then, for a heart rate that
\* is a linear function of the power with zero lag, the result is never
\* positive, and is 0 exactly when no negative lag correlates as well as
\* lag 0
C11_FirstAfterSort ==
    dpc = "done" =>
        /\ Len(correln) = 2 * dn + 1
        /\ \A i \in Lags : correln[i + dn + 1][1] = i
        /\ \E i \in Lags :
            /\ initial_delay = ddt * i
            /\ AllDefined =>
                /\ Maximal(i)
                /\ \A j \in Lags : j < i => ~IsEq(CorrAt(j), CorrAt(i))
        /\ (Linear /\ AllDefined) =>
            /\ initial_delay <= 0
            /\ (initial_delay = 0) <=>
                    (\A j \in Lags : j < 0 => ~IsEq(CorrAt(j), CorrAt(0)))

\* C11 witness: every correlation is defined, two lags tie for the maximum
\* and the smaller one is returned
C11_Witness ==
    /\ dpc = "done"
    /\ AllDefined
    /\ \E i, j \in Lags :
        /\ i < j
        /\ IsEq(CorrAt(i), CorrAt(j))
        /\ Maximal(i)
        /\ initial_delay = ddt * i

(***************************************************************************)
(* add_loss_estimate, evaluate, add_modeled_hr, measure_initial_scaling    *)
(***************************************************************************)
DETRENDED_HEART_RATE == "detrended_heart_rate"
PREDICTED_HEART_RATE == "predicted_heart_rate"
DELAYED_POWER == "delayed_power"

\* cda is held in units of 1/CdaDen, crr in units of 1/CrrDen
CdaDen == 20

CrrDen == 250

\* p = 1.225 = <<numerator, denominator>>
AirDensity == <<49, 40>>

\* a loss that leaves the distance out
LossPerMetre(row, cda, crr) ==
    IF IsNaN(row[AVG_AIR_SPEED_2]) \/ IsNaN(row[DELTA_DISTANCE]) THEN NaN
    ELSE Num(cda * AirDensity[1] * Val(row[AVG_AIR_SPEED_2])
                    * (EnergyDen \div (CdaDen * AirDensity[2] * AvgDen * 2))
                + crr * (EnergyDen \div CrrDen))

\* (cda * p * df[AVG_AIR_SPEED_2] * 0.5 + crr) * df[DELTA_DISTANCE]
Loss(row, cda, crr) ==
    IF IsNaN(row[AVG_AIR_SPEED_2]) \/ IsNaN(row[DELTA_DISTANCE]) THEN NaN
    ELSE Num((cda * AirDensity[1] * Val(row[AVG_AIR_SPEED_2])
                    * (EnergyDen \div (CdaDen * AirDensity[2] * AvgDen * 2))
                + crr * (EnergyDen \div CrrDen))
             * Val(row[DELTA_DISTANCE]))

add_loss_estimate(t, cda, crr) ==
    SetColumn(t, LOSS, [i \in Rows(t) |-> Loss(t[i], cda, crr)])

\* an add_air_speed that writes nothing into the table it was given
AirSpeedCopied(t, wind_speed, wind_heading) == t

\* what add_air_speed leaves in the table object it was given: the air speed
\* and its square are written into it before the join builds a new table
AirSpeedInPlace(t, wind_speed, wind_heading) ==
    WithSquare(WithAirSpeed(t, wind_speed, wind_heading), AIR_SPEED)

\* the table evaluate returns
evaluate(t, mdl) ==
    add_power_estimate(
        add_loss_estimate(
            add_air_speed(add_energy_budget(t, mdl.m), mdl.wind_speed, mdl.wind_heading),
            mdl.cda, mdl.crr))

\* the column a table holds under a name
Column(t, name) == [i \in Rows(t) |-> t[i][name]]

\* add_modeled_hr: the rolling median and the exponentially weighted mean are
\* not computed; a cell records what it is computed from
add_modeled_hr(t, window, slope, intercept, delay) ==
    [i \in Rows(t) |->
        [c \in Columns(t) \cup {DETRENDED_HEART_RATE, PREDICTED_HEART_RATE} |->
            IF c = DETRENDED_HEART_RATE
                THEN Num(<<i, Column(t, HEART_RATE), window>>)
            ELSE IF c = PREDICTED_HEART_RATE
                THEN Num(<<i, Column(t, POWER), slope, intercept, delay, window>>)
            ELSE t[i][c]]]

\* df[DELAYED_POWER] = df[POWER].shift(freq=f'{delay}S'), on an index of
\* spacing 1 s
WithDelayedPower(t, delay) ==
    SetColumn(t, DELAYED_POWER,
              [i \in Rows(t) |-> IF i - delay \in Rows(t) THEN t[i - delay][POWER] ELSE NaN])

(***************************************************************************)
(* SpecEval: a table is differentiated and then evaluated any number of    *)
(* times, as fit_power and its caller do: evaluate mutates the table       *)
(* object it is given (energy budget, air speed) and returns a new one     *)
(* (the join); the next call is given either object.                       *)
(***************************************************************************)
MaxEvalRows == 3

\* cda 0.3, crr 0.004 and no wind; cda 0.45 and a wind of 2 m/s along the
\* meridian; the defaults and a wind of -1 m/s against it
EvalModels ==
    {Replace(PowerModel, [cda |-> 6, crr |-> 1, slope |-> 1, intercept |-> 60]),
     Replace(PowerModel, [cda |-> 9, wind_speed |-> 2, delay |-> 1]),
     Replace(PowerModel, [wind_speed |-> -1, wind_heading |-> 180])}

\* the delays measure_initial_delay may return without raising
EvalDelays == {0, 1}

\* complete samples only: either sample in the first segment, the slower
\* one in the second
EvalRows ==
    {Sample(Num(ts), Num(x[1]), Num(x[2]), Num(x[3])) : ts \in Timespans, x \in Samples}
        \ {Sample(Num(2), Num(2), Num(1), Num(1))}

\* the columns linear_resample and the reader add: 1 s since the row before,
\* a heart rate
WithTimeAndHeartRate(t) ==
    [i \in Rows(t) |->
        [c \in Columns(t) \cup {DELTA_TIME, HEART_RATE} |->
            IF c = DELTA_TIME THEN (IF i = 1 THEN NaN ELSE Num(1))
            ELSE IF c = HEART_RATE THEN Num(100 + i)
            ELSE t[i][c]]]

IsEvalTable(t) ==
    \E n \in 1..MaxEvalRows : \E rows \in [1..n -> EvalRows] :
        t = WithTimeAndHeartRate(WithDistance(rows))

InitOthersEval == OldOff /\ DelayOff /\ ResampleOff /\ CalcOff /\ TabsOff /\ GarminOff

InitEval ==
    /\ IsEvalTable(edf)
    /\ arg = edf /\ before = edf /\ stage_in = edf /\ fresh = <<>>
    /\ epc = "input" /\ emodel = <<>> /\ eprev = <<>>
    /\ InitOthersEval

\* df = add_differentials(df): a new table, which the later calls are given
EvalDifferentials ==
    /\ epc = "input"
    /\ stage_in' = edf
    /\ IF add_differentials_raises(edf)
       THEN epc' = "PowerException" /\ UNCHANGED <<edf, arg, before, fresh>>
       ELSE /\ epc' = "differentials"
            /\ edf' = add_differentials(edf)
            /\ arg' = edf' /\ before' = edf' /\ fresh' = edf'
    /\ UNCHANGED <<emodel, eprev, oldVars, delayVars, resampleVars, calcVars, tabVars, garminVars>>

\* evaluate(obj, mdl) is called with one of the two table objects at hand;
\* df = add_energy_budget(df, model.m) writes into it and returns it
EvalEnergyBudget(obj, mdl) ==
    /\ epc \in {"differentials", "power", "scaled", "hr"}
    /\ before' = obj
    /\ stage_in' = obj
    /\ arg' = add_energy_budget(obj, mdl.m)
    /\ edf' = arg'
    /\ emodel' = mdl
    /\ eprev' = emodel
    /\ epc' = "energy"
    /\ UNCHANGED <<fresh, oldVars, delayVars, resampleVars, calcVars, tabVars, garminVars>>

\* df = add_air_speed(df, ...) writes two columns into the object it is given
\* and returns the joined table, a new object
EvalAirSpeed ==
    /\ epc = "energy"
    /\ stage_in' = edf
    /\ arg' = AirSpeedInPlace(edf, emodel.wind_speed, emodel.wind_heading)
    /\ IF add_air_speed_raises(edf, emodel.wind_speed, emodel.wind_heading)
       THEN epc' = "PowerException" /\ edf' = edf
       ELSE epc' = "air" /\ edf' = add_air_speed(edf, emodel.wind_speed, emodel.wind_heading)
    /\ UNCHANGED <<before, fresh, emodel, eprev, oldVars, delayVars, resampleVars, calcVars, tabVars, garminVars>>

\* df = add_loss_estimate(df, model.cda, model.crr) writes into the joined table
EvalLossEstimate ==
    /\ epc = "air"
    /\ stage_in' = edf
    /\ edf' = add_loss_estimate(edf, emodel.cda, emodel.crr)
    /\ epc' = "loss"
    /\ UNCHANGED <<arg, before, fresh, emodel, eprev, oldVars, delayVars, resampleVars, calcVars, tabVars, garminVars>>

\* df = add_power_estimate(df) writes into the joined table; evaluate returns it
EvalPowerEstimate ==
    /\ epc = "loss"
    /\ stage_in' = edf
    /\ edf' = add_power_estimate(edf)
    /\ epc' = "power"
    /\ UNCHANGED <<arg, before, fresh, emodel, eprev, oldVars, delayVars, resampleVars, calcVars, tabVars, garminVars>>

\* measure_initial_scaling(df), in fit_power after the first evaluate: the
\* delayed power is written into the table
EvalInitialScaling(delay) ==
    /\ epc = "power"
    /\ eprev = <<>>
    /\ stage_in' = edf
    /\ edf' = WithDelayedPower(edf, delay)
    /\ epc' = "scaled"
    /\ UNCHANGED <<arg, before, fresh, emodel, eprev, oldVars, delayVars, resampleVars, calcVars, tabVars, garminVars>>

\* df = add_modeled_hr(df, window, model.slope, model.intercept, model.delay),
\* in evaluate_and_extend: two columns are written into the table
EvalModeledHr ==
    /\ epc = "power"
    /\ stage_in' = edf
    /\ edf' = add_modeled_hr(edf, emodel.window, emodel.slope, emodel.intercept, emodel.delay)
    /\ epc' = "hr"
    /\ UNCHANGED <<arg, before, fresh, emodel, eprev, oldVars, delayVars, resampleVars, calcVars, tabVars, garminVars>>

NextEval ==
    \/ EvalDifferentials
    \/ \E obj \in {arg, edf} : \E mdl \in EvalModels : EvalEnergyBudget(obj, mdl)
    \/ EvalAirSpeed
    \/ EvalLossEstimate
    \/ EvalPowerEstimate
    \/ \E delay \in EvalDelays : EvalInitialScaling(delay)
    \/ EvalModeledHr

SpecEval == InitEval /\ [][NextEval]_vars

\* the table object the last stage was given, as it is now: evaluate's
\* argument up to add_air_speed, the joined table from then on
StageOut == IF epc \in {"energy", "air"} THEN arg ELSE edf

\* the columns the last stage assigns
Written ==
    CASE epc = "energy" -> {DELTA_ENERGY}
      [] epc = "air" -> {AIR_SPEED, AIR_SPEED_2}
      [] epc = "loss" -> {LOSS}
      [] epc = "power" -> {POWER, ENERGY}
      [] epc = "scaled" -> {DELAYED_POWER}
      [] epc = "hr" -> {DETRENDED_HEART_RATE, PREDICTED_HEART_RATE}
      [] OTHER -> {}

Staged == epc \in {"energy", "air", "loss", "power", "scaled", "hr"}

\* t equals u outside the columns cols
SameExcept(t, u, cols) ==
    /\ Len(t) = Len(u)
    /\ Columns(t) \ cols = Columns(u) \ cols
    /\ \A i \in Rows(t) : \A c \in Columns(t) \ cols : t[i][c] = u[i][c]

FirstOfSegment(t, i) == ~HasPrev(t, i)

\* C18 as stated: after add_air_speed without wind the air speed is the
\* ground speed on every row that has one, and the average squared air speed
\* is the average squared ground speed on every row that is not the first
\* of its segment
C18_WindlessAirSpeed ==
    (epc = "air" /\ emodel.wind_speed = 0) =>
        \A i \in Rows(edf) :
            /\ ~IsNaN(edf[i][SPEED]) => edf[i][AIR_SPEED] = edf[i][SPEED]
            /\ ~FirstOfSegment(edf, i) => edf[i][AVG_AIR_SPEED_2] = edf[i][AVG_SPEED_2]

\* what holds instead: without wind the air speed is the ground speed where
\* the heading is defined and missing elsewhere
C18_WindlessWhereHeading ==
    (epc = "air" /\ emodel.wind_speed = 0) =>
        \A i \in Rows(edf) :
            edf[i][AIR_SPEED] = IF IsNaN(edf[i][HEADING]) THEN NaN ELSE edf[i][SPEED]

\* the columns the re-evaluation step yields
Results ==
    {AIR_SPEED, LOSS, POWER, ENERGY, HEADING, DETRENDED_HEART_RATE, PREDICTED_HEART_RATE}

\* evaluate_and_extend applied to the freshly differentiated table
FreshResult ==
    add_modeled_hr(evaluate(fresh, emodel),
                   emodel.window, emodel.slope, emodel.intercept, emodel.delay)

\* C19: whatever was evaluated before, evaluate followed by add_modeled_hr
\* yields the air speed, loss, power, energy, heading, detrended and
\* predicted heart rate it yields on the freshly differentiated table with
\* the same model, and the input columns and ground-speed differentials are
\* those of the differentiated table
C19_HistoryIndependent ==
    /\ epc = "hr" => \A c \in Results : Column(edf, c) = Column(FreshResult, c)
    /\ epc = "power" =>
            \A c \in Results \ {DETRENDED_HEART_RATE, PREDICTED_HEART_RATE} :
                Column(edf, c) = Column(evaluate(fresh, emodel), c)
    /\ Staged => \A c \in Columns(fresh) : Column(edf, c) = Column(fresh, c)

\* C19 witness: a table evaluated before with another model has been
\* re-evaluated, and has a positive power on some row
C19_Witness ==
    /\ epc = "hr"
    /\ eprev # <<>>
    /\ eprev # emodel
    /\ DETRENDED_HEART_RATE \in Columns(before)
    /\ \E i \in Rows(edf) : Val(edf[i][POWER]) > 0

(***************************************************************************)
(* SpecRide: a single-segment ride at 1 s spacing, 5 m/s, constant         *)
(* elevation, due north, differentiated and evaluated with m 70, cda 0.3,  *)
(* crr 0.004 and no wind                                                   *)
(***************************************************************************)
RideSamples == 100

RideModel == Replace(PowerModel, [cda |-> 6, crr |-> 1])

Ride(n) ==
    WithTimeAndHeartRate(WithDistance([i \in 1..n |-> Sample(Num(1), Num(5), Num(0), Num(i))]))

InitRide ==
    /\ \E n \in 3..RideSamples : edf = Ride(n)
    /\ arg = edf /\ before = edf /\ stage_in = edf /\ fresh = <<>>
    /\ epc = "input" /\ emodel = <<>> /\ eprev = <<>>
    /\ InitOthersEval

NextRide ==
    \/ EvalDifferentials
    \/ epc = "differentials" /\ EvalEnergyBudget(edf, RideModel)
    \/ EvalAirSpeed
    \/ EvalLossEstimate
    \/ EvalPowerEstimate

SpecRide == InitRide /\ [][NextRide]_vars

\* the power, in units of 1/PowerDen of 1/EnergyDen W, of a loss over 5 m in
\* 1 s at an average squared air speed of avg2
RidePower(avg2) ==
    PowerDen * Val(Loss([c \in {AVG_AIR_SPEED_2, DELTA_DISTANCE} |->
                            IF c = DELTA_DISTANCE THEN Num(5) ELSE Num(AvgDen * avg2)],
                        RideModel.cda, RideModel.crr))

\* C14 as stated: the power of the ride is (0.3 * 1.225 * 125 * 0.5 + 0.004)
\* * 5 W on its rows, and never below 0
C14_RidePower ==
    epc = "power" =>
        \A i \in Rows(edf) : i >= 2 => edf[i][POWER] = Num(RidePower(125))

\* C14: the power of the ride is 0 on its first two rows and
\* (0.3 * 1.225 * 25 * 0.5 + 0.004) * 5 W = 22.98875 W = 183.91 / 8 W on
\* every later row
C14_RidePowerFromThirdRow ==
    epc = "power" =>
        \A i \in Rows(edf) :
            /\ edf[i][POWER] = IF i <= 2 THEN Num(0) ELSE Num(RidePower(25))
            /\ Val(edf[i][POWER]) >= 0
            /\ RidePower(25) * 8 = 183910 * PowerDen * (EnergyDen \div 1000)

\* C14 witness: the ride of RideSamples samples has been evaluated and its
\* last row has the power of the loss
C14_Witness ==
    /\ epc = "power"
    /\ Len(edf) = RideSamples
    /\ edf[RideSamples][POWER] = Num(RidePower(25))
    /\ edf[RideSamples][DELTA_ENERGY] = Num(0)

(***************************************************************************)
(* linear_resample.  The table it is given is a function from the times    *)
(* of its samples (seconds) to rows; the table it returns is a sequence of *)
(* rows, one per tick that is kept.  Interpolated cells are held in units  *)
(* of 1/ResampleDen.                                                       *)
(***************************************************************************)
TIME == "time"

MaxTime == 4

\* the least number every distance between two samples divides
ResampleDen == CHOOSE n \in 1..720 :
    /\ \A d \in 1..(MaxTime + 1) : n % d = 0
    /\ \A k \in 1..(n - 1) : \E d \in 1..(MaxTime + 1) : k % d # 0

\* the samples before and after time x that have a value in column c
Before(t, c, x) == {y \in DOMAIN t : y < x /\ ~IsNaN(t[y][c])}

After(t, c, x) == {y \in DOMAIN t : y > x /\ ~IsNaN(t[y][c])}

Latest(S) == CHOOSE y \in S : \A z \in S : z <= y

Earliest(S) == CHOOSE y \in S : \A z \in S : y <= z

\* both.interpolate(method='index', limit_area='inside'), column c at time
\* x: the value of a sample there, or the value on the line through the
\* nearest samples on either side, or missing when a side has none
Interpolate(t, c, x) ==
    IF x \in DOMAIN t /\ ~IsNaN(t[x][c]) THEN Num(ResampleDen * Val(t[x][c]))
    ELSE IF Before(t, c, x) = {} \/ After(t, c, x) = {} THEN NaN
    ELSE LET a == Latest(Before(t, c, x))
             b == Earliest(After(t, c, x))
         IN  Num(ResampleDen * Val(t[a][c])
                    + (Val(t[b][c]) - Val(t[a][c])) * (x - a) * (ResampleDen \div (b - a)))

\* pd.date_range(start=stats.index.min(), end=stats.index.max(), freq=f'{dt}S')
Ticks(t, dt) ==
    LET start == Earliest(DOMAIN t)
        finish == Latest(DOMAIN t)
    IN  {x \in start..finish : (x - start) % dt = 0}

\* stats[TIMESPAN_ID].unique(), in the unit of the interpolated cells
UniqueIds(t) == {Num(ResampleDen * Val(t[y][TIMESPAN_ID])) : y \in DOMAIN t}

\* resampled[TIMESPAN_ID].isin(stats[TIMESPAN_ID].unique()), at tick x
IsIn(t, x) == Interpolate(t, TIMESPAN_ID, x) \in UniqueIds(t)

\* the row of tick x before the segment test: every column interpolated,
\* then the time and the time since the tick before
ResampledRow(t, dt, x) ==
    [c \in {TIMESPAN_ID, SPEED, TIME, DELTA_TIME} |->
        IF c = TIME THEN Num(x)
        ELSE IF c = DELTA_TIME THEN (IF x = Earliest(DOMAIN t) THEN NaN ELSE Num(dt))
        ELSE Interpolate(t, c, x)]

\* resampled.loc[~...isin(...)] = np.nan
AllMissing == [c \in {TIMESPAN_ID, SPEED, TIME, DELTA_TIME} |-> NaN]

\* the ticks in ascending order
RECURSIVE Ascending(_)
Ascending(S) ==
    IF S = {} THEN <<>>
    ELSE <<Earliest(S)>> \o Ascending(S \ {Earliest(S)})

linear_resample(t, dt, keep) ==
    LET kept == IF keep THEN Ticks(t, dt) ELSE {x \in Ticks(t, dt) : IsIn(t, x)}
        order == Ascending(kept)
    IN  [k \in 1..Len(order) |->
            IF IsIn(t, order[k]) THEN ResampledRow(t, dt, order[k]) ELSE AllMissing]

(***************************************************************************)
(* SpecResample: linear_resample on tables with a segment identifier       *)
(***************************************************************************)
ResampleIds == {1, 2, 3}

InitOthersResample == OldOff /\ DelayOff /\ EvalOff /\ CalcOff /\ TabsOff /\ GarminOff
InitOthersCalc == OldOff /\ DelayOff /\ EvalOff /\ ResampleOff /\ TabsOff /\ GarminOff
InitOthersTabs == OldOff /\ DelayOff /\ EvalOff /\ ResampleOff /\ CalcOff /\ GarminOff
InitOthersGarmin == OldOff /\ DelayOff /\ EvalOff /\ ResampleOff /\ CalcOff /\ TabsOff

\* samples at time 0 and at one or more later times up to MaxTime, each
\* with a segment identifier; the speed is the square of the time
InitResample ==
    /\ \E times \in SUBSET (1..MaxTime) :
        /\ times # {}
        /\ \E ids \in [times \cup {0} -> ResampleIds] :
            stats = [x \in times \cup {0} |->
                        [c \in {TIMESPAN_ID, SPEED} |->
                            IF c = TIMESPAN_ID THEN Num(ids[x]) ELSE Num(x * x)]]
    /\ keep_nan \in BOOLEAN
    /\ rdt \in DeltaTimes
    /\ rpc = "input"
    /\ resampled = <<>>
    /\ InitOthersResample

\* linear_resample(stats, dt=dt, keep_nan=keep_nan)
LinearResample ==
    /\ rpc = "input"
    /\ resampled' = linear_resample(stats, rdt, keep_nan)
    /\ rpc' = "done"
    /\ UNCHANGED <<stats, keep_nan, rdt, oldVars, delayVars, evalVars, calcVars, tabVars, garminVars>>

NextResample == LinearResample

SpecResample == InitResample /\ [][NextResample]_vars

\* the samples next to tick x: the last at or before it, the first at or after it
SampleBefore(x) == Latest({y \in DOMAIN stats : y <= x})

SampleAfter(x) == Earliest({y \in DOMAIN stats : y >= x})

\* tick x lies strictly between the last sample of one segment and the
\* first sample of the next
InGap(x) ==
    /\ x \notin DOMAIN stats
    /\ stats[SampleBefore(x)][TIMESPAN_ID] # stats[SampleAfter(x)][TIMESPAN_ID]

\* the rows of the result that are the data of tick x
DataRows(x) == {k \in 1..Len(resampled) : resampled[k][TIME] = Num(x)}

\* C13 as stated: a tick in a gap is no data row (all missing with keep_nan,
\* removed without), and a tick inside a segment is a row with the
\* interpolated speed and the identifier of the segment
C13_GapTicksAreNoRows ==
    rpc = "done" =>
        /\ keep_nan => Len(resampled) = Cardinality(Ticks(stats, rdt))
        /\ \A k \in 1..Len(resampled) :
                IsNaN(resampled[k][TIME]) => resampled[k] = AllMissing
        /\ \A x \in Ticks(stats, rdt) :
                IF InGap(x) THEN DataRows(x) = {}
                ELSE \E k \in DataRows(x) :
                        /\ resampled[k][SPEED] = Interpolate(stats, SPEED, x)
                        /\ resampled[k][TIMESPAN_ID]
                                = Num(ResampleDen * Val(stats[SampleBefore(x)][TIMESPAN_ID]))

\* what holds instead: a tick in a gap is a data row exactly when the
\* identifier interpolated across the gap is the identifier of some sample
C13_GapTicksUnlessIdentifierHit ==
    rpc = "done" =>
        \A x \in Ticks(stats, rdt) :
            InGap(x) => ((DataRows(x) # {}) <=> IsIn(stats, x))


\* ---------------------------------------------------------------------------
\* ExtendedPowerCalculator._run_one (src/py/ch2/pipeline/calculate/power.py):
\* the processing of one activity.  The tables and the fit are abstracted to
\* what each call does to the control flow: it returns, or it raises an
\* exception of one of the classes the handlers tell apart.
\* ---------------------------------------------------------------------------

POWER_ESTIMATE == "power_estimate"
ENERGY_ESTIMATE == "energy_estimate"
CALORIE_ESTIMATE == "calorie_estimate"
POWER_HR == "power_hr"
POWER_HR_LAG == "power_hr_lag"
WIND_SPEED == "wind_speed"
WIND_HEADING == "wind_heading"

\* The exception classes the handlers tell apart; "Exception" stands for any
\* other subclass of Exception (ValueError, TypeError, a database error).
Exceptions == {"PowerException", "MissingReference", "Exception"}

\* isinstance(e, cls): PowerException and MissingReference derive from Exception.
IsInstance(e, cls) ==
    e \in Exceptions /\ (cls = "Exception" \/ e = cls)

\* A configuration that never fails to load.
SetPowerNeverRaises(cfg) ==
    "none"

\* _set_power: Constant.get(...) fails on a missing bundle, Power(**loads(...))
\* on a malformed one, power.expand on a reference that does not resolve.
SetPowerRaises(cfg) ==
    CASE cfg = "ok" -> "none"
      [] cfg = "missing" -> "Exception"
      [] cfg = "malformed" -> "Exception"
      [] cfg = "unresolved" -> "MissingReference"

\* An outer handler that lets everything but PowerException through.
OuterCatchesPowerOnly(e) ==
    IsInstance(e, "PowerException")

\* The handler of the outer try of _run_one: except Exception.
OuterCatches(e) ==
    IsInstance(e, "Exception")

\* What is left in flight when e is raised inside the outer try.
InFlight(e) ==
    IF OuterCatches(e) THEN "none" ELSE e

\* The fields _copy_results adds from the fitted model, before the tables.
FittedParameters(names) ==
    (IF "slope" \in names THEN {POWER_HR} ELSE {})
        \cup (IF "delay" \in names THEN {POWER_HR_LAG} ELSE {})
        \cup (IF "wind_speed" \in names THEN {WIND_SPEED} ELSE {})
        \cup (IF "wind_heading" \in names THEN {WIND_HEADING} ELSE {})

\* The fields BasicPowerCalculator._copy_results adds with its default fields.
BasicFields ==
    {ENERGY_ESTIMATE, CALORIE_ESTIMATE, POWER_ESTIMATE, HEADING}

\* The fields the extended _copy_results passes on top of the basic ones.
FittedColumns ==
    {PREDICTED_HEART_RATE, DETRENDED_HEART_RATE}

FittedFields ==
    {POWER_HR, POWER_HR_LAG, WIND_SPEED, WIND_HEADING} \cup FittedColumns

VaryLists ==
    {{}, {"slope"}, {"delay", "wind_speed"}, {"slope", "delay", "wind_speed", "wind_heading"}}

Configs == {"ok", "missing", "malformed", "unresolved"}

Steps == {"read", "fit", "basic", "copy", "load"}

InitCalc ==
    /\ InitOthersCalc
    /\ cpc = "start"
    /\ config \in Configs
    /\ cvary \in VaryLists
    /\ data = "None"
    /\ cstats = <<>>
    /\ staged = {}
    /\ loaded = {}
    /\ raised = [s \in Steps |-> "notrun"]
    /\ reports = {}
    /\ timestamp = FALSE
    /\ escaped = "none"

\* _read_dataframe: every exception is caught inside it, logged as a warning,
\* and None is returned; otherwise the pair (df, ldf).
ReadDataframe ==
    /\ cpc = "start"
    /\ \E r \in {"none", "PowerException", "Exception"} :
        LET e == IF SetPowerRaises(config) # "none" THEN SetPowerRaises(config) ELSE r
        IN  /\ raised' = [raised EXCEPT !["read"] = e]
            /\ data' = IF e = "none" THEN "dfs" ELSE "None"
            /\ reports' = IF e = "none" THEN reports ELSE reports \cup {"warning"}
    /\ cpc' = "read"
    /\ UNCHANGED <<config, cvary, cstats, staged, loaded, timestamp, escaped,
                   oldVars, delayVars, evalVars, resampleVars, tabVars, garminVars>>

\* if data: is false for None; nothing is calculated, copied or loaded.
SkipActivity ==
    /\ cpc = "read"
    /\ data = "None"
    /\ cpc' = "exit"
    /\ UNCHANGED <<config, cvary, data, cstats, staged, loaded, raised, reports,
                   timestamp, escaped, oldVars, delayVars, evalVars, resampleVars, tabVars, garminVars>>

\* The extended _calculate_stats inside the inner try: PowerException when
\* nothing is varied, else whatever fit_power, evaluate and add_modeled_hr do.
\* The inner handler takes PowerException only; the rest goes to the outer one.
CalculateStats ==
    /\ cpc = "read"
    /\ data = "dfs"
    /\ \E f \in {"none", "PowerException", "Exception"} :
        LET e == IF cvary = {} THEN "PowerException" ELSE f
        IN  /\ raised' = [raised EXCEPT !["fit"] = e]
            /\ IF e = "none"
               THEN /\ cstats' = <<"model", "df">>
                    /\ cpc' = "calculated"
                    /\ UNCHANGED <<reports, escaped>>
               ELSE IF IsInstance(e, "PowerException")
               THEN /\ reports' = reports \cup {"debug"}
                    /\ cpc' = "fallback"
                    /\ UNCHANGED <<cstats, escaped>>
               ELSE /\ reports' = IF OuterCatches(e) THEN reports \cup {"error"} ELSE reports
                    /\ escaped' = InFlight(e)
                    /\ cpc' = "exit"
                    /\ UNCHANGED cstats
    /\ staged' = {}
    /\ UNCHANGED <<config, cvary, data, loaded, timestamp,
                   oldVars, delayVars, evalVars, resampleVars, tabVars, garminVars>>

\* The inner handler: a new loader and BasicPowerCalculator._calculate_stats on
\* the same data; what it raises goes to the outer handler.
BasicCalculateStats ==
    /\ cpc = "fallback"
    /\ \E b \in {"none", "PowerException", "Exception"} :
        /\ raised' = [raised EXCEPT !["basic"] = b]
        /\ IF b = "none"
           THEN /\ cstats' = <<"None", "dfs">>
                /\ cpc' = "calculated"
                /\ UNCHANGED <<reports, escaped>>
           ELSE /\ reports' = IF OuterCatches(b) THEN reports \cup {"error"} ELSE reports
                /\ escaped' = InFlight(b)
                /\ cpc' = "exit"
                /\ UNCHANGED cstats
    /\ staged' = {}
    /\ UNCHANGED <<config, cvary, data, loaded, timestamp,
                   oldVars, delayVars, evalVars, resampleVars, tabVars, garminVars>>

\* The extended _copy_results: the fitted parameters first when there is a
\* model, then the basic _copy_results with the fields; an exception there
\* leaves the loader with what was added so far.
CopyResults ==
    /\ cpc = "calculated"
    /\ \E c \in {"none", "Exception"} :
        LET fitted == cstats[1] = "model"
            first == IF fitted THEN FittedParameters(cvary) ELSE {}
            rest == BasicFields \cup (IF fitted THEN FittedColumns ELSE {})
        IN  /\ raised' = [raised EXCEPT !["copy"] = c]
            /\ IF c = "none"
               THEN /\ staged' = staged \cup first \cup rest
                    /\ cpc' = "copied"
                    /\ UNCHANGED <<reports, escaped>>
               ELSE /\ staged' = staged \cup first
                    /\ reports' = IF OuterCatches(c) THEN reports \cup {"error"} ELSE reports
                    /\ escaped' = InFlight(c)
                    /\ cpc' = "exit"
    /\ UNCHANGED <<config, cvary, data, cstats, loaded, timestamp,
                   oldVars, delayVars, evalVars, resampleVars, tabVars, garminVars>>

\* loader.load(): stores what was added, or raises and stores nothing.
Load ==
    /\ cpc = "copied"
    /\ \E l \in {"none", "Exception"} :
        /\ raised' = [raised EXCEPT !["load"] = l]
        /\ IF l = "none"
           THEN /\ loaded' = staged
                /\ UNCHANGED <<reports, escaped>>
           ELSE /\ reports' = IF OuterCatches(l) THEN reports \cup {"error"} ELSE reports
                /\ escaped' = InFlight(l)
                /\ UNCHANGED loaded
    /\ cpc' = "exit"
    /\ UNCHANGED <<config, cvary, data, cstats, staged, timestamp,
                   oldVars, delayVars, evalVars, resampleVars, tabVars, garminVars>>

\* Leaving the with block: Timestamp(...).on_success(s) records the timestamp
\* when the block ends without an exception.
ExitTimestamp ==
    /\ cpc = "exit"
    /\ timestamp' = (escaped = "none")
    /\ cpc' = "done"
    /\ UNCHANGED <<config, cvary, data, cstats, staged, loaded, raised, reports,
                   escaped, oldVars, delayVars, evalVars, resampleVars, tabVars, garminVars>>

NextCalc ==
    \/ ReadDataframe
    \/ SkipActivity
    \/ CalculateStats
    \/ BasicCalculateStats
    \/ CopyResults
    \/ Load
    \/ ExitTimestamp

SpecCalc == InitCalc /\ [][NextCalc]_vars

Failed(step) ==
    raised[step] \in Exceptions

\* C15 (as claimed): whenever the fitted calculation of an activity fails
\* (something is varied, so the failure is numeric or one of data), the basic
\* calculation is run, and when it, the copying and the loading succeed the
\* activity ends with exactly the basic fields loaded.
C15_FallsBackOnAnyFailure ==
    (cpc = "done" /\ cvary # {} /\ Failed("fit"))
        => /\ raised["basic"] # "notrun"
           /\ (~Failed("basic") /\ ~Failed("copy") /\ ~Failed("load"))
                => loaded = BasicFields

\* The fall back the code has: it is taken exactly for PowerException.
C15_FallsBackOnPowerException ==
    (cpc = "done" /\ Failed("fit"))
        => /\ raised["basic"] # "notrun" <=> raised["fit"] = "PowerException"
           /\ raised["fit"] # "PowerException" => loaded = {}
           /\ (raised["fit"] = "PowerException" /\ raised["basic"] = "none"
                    /\ raised["copy"] = "none" /\ raised["load"] = "none")
                => loaded = BasicFields

\* C16: whatever is raised while reading, calculating, copying or loading, no
\* exception leaves _run_one, the Timestamp is recorded, and the activity ends
\* with nothing loaded or with the basic fields loaded; fitted fields are
\* loaded only all together, when nothing was raised at all.
C16_NothingFatal ==
    cpc = "done"
        => /\ escaped = "none"
           /\ timestamp
           /\ (\E s \in Steps : Failed(s)) => loaded \in {{}, BasicFields}
           /\ loaded \cap FittedFields # {}
                => loaded = BasicFields \cup FittedColumns \cup FittedParameters(cvary)

\* The fit succeeded, its parameters were added to the loader, and copying
\* the tables raised: nothing is loaded and the activity is marked processed.
C16_Witness ==
    /\ cpc = "done"
    /\ raised["fit"] = "none"
    /\ raised["copy"] = "Exception"
    /\ staged = FittedParameters(cvary)
    /\ staged # {}
    /\ loaded = {}
    /\ timestamp

ConfigError ==
    config # "ok" \/ cvary = {}

\* A failure that is not one of configuration.
OtherFailure ==
    \/ config = "ok" /\ Failed("read")
    \/ Failed("basic")
    \/ Failed("copy")
    \/ Failed("load")

\* C17 (as claimed): a configuration error is reported and not fatal, and
\* the activity still gets the basic fields.
C17_ConfigErrorStillBasic ==
    (cpc = "done" /\ ConfigError /\ ~OtherFailure)
        => /\ reports # {}
           /\ escaped = "none"
           /\ loaded = BasicFields

\* C17 (amended): a configuration error is reported and not fatal and no
\* fitted field is loaded; a bundle that is missing, malformed or has an
\* unresolved reference leaves the activity with nothing calculated and
\* nothing loaded, and only an empty vary list (of a bundle that loads) skips
\* just the fit and ends with the basic fields.
C17_ConfigErrorReported ==
    (cpc = "done" /\ ConfigError)
        => /\ reports # {}
           /\ escaped = "none"
           /\ timestamp
           /\ loaded \cap FittedFields = {}
           /\ config # "ok"
                => /\ "warning" \in reports
                   /\ raised["fit"] = "notrun"
                   /\ raised["basic"] = "notrun"
                   /\ loaded = {}
           /\ (config = "ok" /\ ~OtherFailure)
                => /\ "debug" \in reports
                   /\ raised["fit"] = "PowerException"
                   /\ loaded = BasicFields

\* A reference of the bundle does not resolve: the activity is marked
\* processed with nothing loaded.
C17_Witness ==
    /\ cpc = "done"
    /\ config = "unresolved"
    /\ "warning" \in reports
    /\ loaded = {}
    /\ timestamp


\* ---------------------------------------------------------------------------
\* TabNode (src/choochoo/uweird/tabs.py): tabbing between the tabs of nested
\* nodes.  A node is "R", "N" or "M"; a Tab is "a", "b" or "c".  emit_signal
\* calls the connected handler at once, so a keypress is one step: the whole
\* chain of tab(), to() and discover() calls it sets off.
\* ---------------------------------------------------------------------------

Nodes == {"R", "N", "M"}

Widgets == {"a", "b", "c"}

Keys == {"tab", "shift tab"}

\* The trees of TabNode(widget, tab_list) constructions: the TabList of each node.
TabLists ==
    { [R |-> <<"a", "N", "b">>, N |-> <<"c">>, M |-> <<>>],
      [R |-> <<"a", "N">>, N |-> <<>>, M |-> <<>>],
      [R |-> <<"N", "a">>, N |-> <<"M", "b">>, M |-> <<>>],
      [R |-> <<"N">>, N |-> <<"a", "b">>, M |-> <<>>],
      [R |-> <<"a", "N", "M">>, N |-> <<>>, M |-> <<"b", "c">>],
      [R |-> <<"N", "M">>, N |-> <<"a">>, M |-> <<"b", "c">>] }

Managed(node) ==
    {tabs[node][i] : i \in 1..Len(tabs[node])}

\* The node whose __build_data connected its tab() to the 'tab' signal of item.
Parent(item) ==
    IF \E p \in Nodes : item \in Managed(p)
    THEN CHOOSE p \in Nodes : item \in Managed(p)
    ELSE "none"

\* __tabs_and_indices[tab], counted from 0.
IndexOf(node, item) ==
    (CHOOSE i \in 1..Len(tabs[node]) : tabs[node][i] = item) - 1

\* A delta that always moves forward.
DeltaForward(key) ==
    1

\* delta = 1 if key == 'tab' else -1
Delta(key) ==
    IF key = "tab" THEN 1 ELSE -1

RECURSIVE discover(_, _, _, _)
RECURSIVE DiscoverTabs(_, _, _, _)
RECURSIVE tab(_, _, _, _)
RECURSIVE to(_, _, _)
RECURSIVE try_set_focus(_, _, _, _)

\* discover: sets __top when istop, the root (the node itself for None), and a
\* focus for every managed tab; a nested node is discovered with top=False.
discover(s, node, rt, istop) ==
    LET r == IF rt = "none" THEN node ELSE rt
        s1 == [s EXCEPT !.top[node] = @ \/ istop,
                        !.root[node] = r,
                        !.known[node] = TRUE]
    IN  DiscoverTabs(s1, node, 1, r)

DiscoverTabs(s, node, i, r) ==
    IF i > Len(tabs[node])
    THEN s
    ELSE DiscoverTabs(IF tabs[node][i] \in Nodes
                      THEN discover(s, tabs[node][i], r, FALSE)
                      ELSE s,
                      node, i + 1, r)

\* emit_signal(self, 'tab', self, key): the managing node's tab() is called.
emit(s, node, key) ==
    LET s1 == [s EXCEPT !.emits = Append(@, node)]
    IN  IF Parent(node) = "none" THEN s1 ELSE tab(s1, Parent(node), node, key)

\* Focus(path).to(root, key): the widget at the path gets the focus.
FocusTo(s, item) ==
    [s EXCEPT !.focus = item]

\* __set_focus: self.__focus[tab].to(self.__root, key), the Focus of a Tab or
\* the nested node itself.
set_focus(s, node, item, key) ==
    IF item \in Nodes THEN to(s, item, key) ELSE FocusTo(s, item)

\* __try_set_focus: a focus of None raises AttributeError, answered by
\* self.discover(self.__root), with top left at its default of True.
try_set_focus(s, node, n, key) ==
    IF s.known[node]
    THEN set_focus(s, node, tabs[node][n + 1], key)
    ELSE set_focus(discover(s, node, s.root[node], TRUE), node, tabs[node][n + 1], key)

to(s, node, key) ==
    IF Len(tabs[node]) > 0
    THEN try_set_focus(s, node, IF key = "tab" THEN 0 ELSE Len(tabs[node]) - 1, key)
    ELSE emit(s, node, key)

tab(s, node, item, key) ==
    LET n == IndexOf(node, item) + Delta(key)
    IN  IF 0 <= n /\ n < Len(tabs[node])
        THEN try_set_focus(s, node, n, key)
        ELSE IF s.top[node]
        THEN to(s, node, key)
        ELSE emit(s, node, key)

NoEvent == [node |-> "none"]

NoCall == [op |-> "idle"]

InitTabs ==
    /\ InitOthersTabs
    /\ tabs \in TabLists
    /\ top = [x \in Nodes |-> FALSE]
    /\ root = [x \in Nodes |-> "none"]
    /\ known = [x \in Nodes |-> FALSE]
    /\ focus = "none"
    /\ emits = <<>>
    /\ event = NoEvent
    /\ call = NoCall

TabState ==
    [top |-> top, root |-> root, known |-> known, focus |-> focus, emits |-> <<>>]

\* root.discover() on the top-most node.
Discover ==
    /\ LET s == discover(TabState, "R", "none", TRUE)
       IN  /\ top' = s.top
           /\ root' = s.root
           /\ known' = s.known
    /\ emits' = <<>>
    /\ event' = NoEvent
    /\ UNCHANGED <<tabs, focus, call, oldVars, delayVars, evalVars, resampleVars, calcVars, garminVars>>

\* replace_all with a list of new tabs of the same shape: every focus of the
\* node is None again.
ReplaceAll(node) ==
    /\ tabs[node] # <<>>
    /\ known[node]
    /\ known' = [known EXCEPT ![node] = FALSE]
    /\ focus' = IF focus \in Managed(node) THEN "none" ELSE focus
    /\ emits' = <<>>
    /\ event' = NoEvent
    /\ UNCHANGED <<tabs, top, root, call, oldVars, delayVars, evalVars, resampleVars, calcVars, garminVars>>

\* Tab.keypress: a tab or shift tab key on a Tab raises 'tab', which the
\* managing node's tab() receives.
Keypress(w, key) ==
    /\ Parent(w) # "none"
    /\ LET s == tab(TabState, Parent(w), w, key)
       IN  /\ top' = s.top
           /\ root' = s.root
           /\ known' = s.known
           /\ focus' = s.focus
           /\ emits' = s.emits
    /\ event' = [node |-> Parent(w), k |-> IndexOf(Parent(w), w), key |-> key,
                 top |-> top[Parent(w)], focus |-> focus]
    /\ UNCHANGED <<tabs, call, oldVars, delayVars, evalVars, resampleVars, calcVars, garminVars>>

NextTabs ==
    \/ Discover
    \/ \E node \in Nodes : ReplaceAll(node)
    \/ \E w \in Widgets, key \in Keys : Keypress(w, key)

SpecTabs == InitTabs /\ [][NextTabs]_vars

\* The index the signal asks for, and whether the node has a tab there.
Wanted == event.k + (IF event.key = "tab" THEN 1 ELSE -1)

InRange == 0 <= Wanted /\ Wanted < Len(tabs[event.node])

Neighbour == tabs[event.node][Wanted + 1]

\* The tab to() of an item ends at when nothing is re-raised: the item itself
\* for a Tab, for a node the first (tab) or last (shift tab) of its tabs, and
\* so on inside it; "none" when that way ends at a node without tabs.
RECURSIVE Entry(_, _)
Entry(item, key) ==
    IF item \in Widgets THEN item
    ELSE IF tabs[item] = <<>> THEN "none"
    ELSE Entry(tabs[item][IF key = "tab" THEN 1 ELSE Len(tabs[item])], key)

Times(node) ==
    Cardinality({i \in 1..Len(emits) : emits[i] = node})

\* The widgets under an item: the places a focus given to it can be.
RECURSIVE Under(_)
Under(item) ==
    IF item \in Widgets THEN {item}
    ELSE UNION {Under(tabs[item][i]) : i \in 1..Len(tabs[item])}

\* C20 (as claimed): a neighbour in range gets the focus and nothing is
\* re-raised; else the top node gives the focus to its first or last tab;
\* else the node re-raises 'tab' exactly once.
C20_TabThreeWays ==
    event.node # "none"
        => IF InRange
           THEN focus \in Under(Neighbour) /\ emits = <<>>
           ELSE IF event.top
           THEN focus \in Under(tabs[event.node][IF event.key = "tab" THEN 1
                                                  ELSE Len(tabs[event.node])])
           ELSE Times(event.node) = 1

\* C20 (amended): the focus goes where to() of the neighbour, or of the top
\* node itself, leads, and nothing is re-raised, unless that way ends at a
\* nested node without tabs, which re-raises 'tab' first; a node that is not
\* top and has no tab in range re-raises first and exactly once, and without
\* a parent the focus stays where it was.
C20_TabThreeWaysUnlessEmpty ==
    event.node # "none"
        => IF InRange
           THEN IF Entry(Neighbour, event.key) # "none"
                THEN focus = Entry(Neighbour, event.key) /\ emits = <<>>
                ELSE emits # <<>> /\ tabs[emits[1]] = <<>>
           ELSE IF event.top
           THEN IF Entry(event.node, event.key) # "none"
                THEN focus = Entry(event.node, event.key) /\ emits = <<>>
                ELSE emits # <<>> /\ tabs[emits[1]] = <<>>
           ELSE /\ emits # <<>>
                /\ emits[1] = event.node
                /\ Times(event.node) = 1
                /\ Parent(event.node) = "none" => focus = event.focus /\ Len(emits) = 1

\* Shift tab on the first tab of a nested node that is not top: the node
\* re-raises and its parent gives the focus to the tab before the node.
C20_Witness ==
    /\ event.node = "N"
    /\ event.key = "shift tab"
    /\ event.k = 0
    /\ ~event.top
    /\ emits = <<"N">>
    /\ focus = "a"
    /\ tabs["R"] = <<"a", "N", "b">>


\* ---------------------------------------------------------------------------
\* The chain of calls one keypress sets off, call by call.  Every call of
\* tab(), to(), __try_set_focus() and emit_signal() is the last thing its
\* caller does, so the chain is the one call that is running; it has ended
\* when a Focus got the focus or a signal found no handler.
\* ---------------------------------------------------------------------------

\* The trees of SpecTabs, and trees in which a nested node manages nothing
\* but a nested node.
ChainTabLists ==
    TabLists \cup
    { [R |-> <<"a", "N">>, N |-> <<"M">>, M |-> <<"b">>],
      [R |-> <<"a", "N">>, N |-> <<"M">>, M |-> <<>>],
      [R |-> <<"N", "a">>, N |-> <<"b", "M">>, M |-> <<"c">>] }

\* The nodes of the tree below the top-most node, itself included.
RECURSIVE NodesUnder(_)
NodesUnder(node) ==
    {node} \cup UNION {NodesUnder(tabs[node][i]) :
                            i \in {j \in 1..Len(tabs[node]) : tabs[node][j] \in Nodes}}

Call(op, node, item, n, key) ==
    [op |-> op, node |-> node, item |-> item, n |-> n, key |-> key]

InitChain ==
    /\ InitOthersTabs
    /\ tabs \in ChainTabLists
    /\ top = [x \in Nodes |-> FALSE]
    /\ root = [x \in Nodes |-> "none"]
    /\ known = [x \in Nodes |-> FALSE]
    /\ focus = "none"
    /\ emits = <<>>
    /\ event = NoEvent
    /\ call = NoCall

\* root.discover() on the top-most node, between keypresses.
ChainDiscover ==
    /\ call = NoCall
    /\ LET s == discover(TabState, "R", "none", TRUE)
       IN  /\ top' = s.top
           /\ root' = s.root
           /\ known' = s.known
    /\ UNCHANGED <<tabs, focus, emits, event, call,
                   oldVars, delayVars, evalVars, resampleVars, calcVars, garminVars>>

\* replace_all on a node of the tree, with new tabs of the same shape or with
\* an empty list: __focus is built anew, every focus None.
ChainReplaceAll(node, list) ==
    /\ call = NoCall
    /\ node \in NodesUnder("R")
    /\ tabs[node] # <<>>
    /\ known[node] \/ list # tabs[node]
    /\ tabs' = [tabs EXCEPT ![node] = list]
    /\ known' = [known EXCEPT ![node] = FALSE]
    /\ focus' = IF list = <<>> /\ focus \in Under(node) THEN "none"
                ELSE IF focus \in Managed(node) THEN "none" ELSE focus
    /\ UNCHANGED <<top, root, emits, event, call,
                   oldVars, delayVars, evalVars, resampleVars, calcVars, garminVars>>

\* Tab.keypress on a Tab of the tree: 'tab' is raised and the managing
\* node's tab() is called.
ChainKeypress(w, key) ==
    /\ call = NoCall
    /\ w \in Under("R")
    /\ call' = Call("tab", Parent(w), w, 0, key)
    /\ event' = [node |-> Parent(w), k |-> IndexOf(Parent(w), w), key |-> key,
                 top |-> top[Parent(w)], focus |-> focus]
    /\ UNCHANGED <<tabs, top, root, known, focus, emits,
                   oldVars, delayVars, evalVars, resampleVars, calcVars, garminVars>>

\* TabNode.tab
StepTab ==
    /\ call.op = "tab"
    /\ LET n == IndexOf(call.node, call.item) + Delta(call.key)
       IN  call' = IF 0 <= n /\ n < Len(tabs[call.node])
                   THEN Call("try_set_focus", call.node, "none", n, call.key)
                   ELSE IF top[call.node]
                   THEN Call("to", call.node, "none", 0, call.key)
                   ELSE Call("emit", call.node, "none", 0, call.key)
    /\ UNCHANGED <<tabs, top, root, known, focus, emits, event,
                   oldVars, delayVars, evalVars, resampleVars, calcVars, garminVars>>

\* TabNode.to
StepTo ==
    /\ call.op = "to"
    /\ call' = IF Len(tabs[call.node]) > 0
               THEN Call("try_set_focus", call.node, "none",
                         IF call.key = "tab" THEN 0 ELSE Len(tabs[call.node]) - 1, call.key)
               ELSE Call("emit", call.node, "none", 0, call.key)
    /\ UNCHANGED <<tabs, top, root, known, focus, emits, event,
                   oldVars, delayVars, evalVars, resampleVars, calcVars, garminVars>>

\* TabNode.__try_set_focus with __set_focus: discover(self.__root) first when
\* the focus is None, then the Focus gets the focus or the nested node's to()
\* is called.
StepTrySetFocus ==
    /\ call.op = "try_set_focus"
    /\ LET s == IF known[call.node] THEN TabState
                ELSE discover(TabState, call.node, root[call.node], TRUE)
           item == tabs[call.node][call.n + 1]
       IN  /\ top' = s.top
           /\ root' = s.root
           /\ known' = s.known
           /\ IF item \in Nodes
              THEN /\ call' = Call("to", item, "none", 0, call.key)
                   /\ UNCHANGED focus
              ELSE /\ call' = NoCall
                   /\ focus' = FocusTo(s, item).focus
    /\ UNCHANGED <<tabs, emits, event,
                   oldVars, delayVars, evalVars, resampleVars, calcVars, garminVars>>

\* emit_signal(self, 'tab', self, key): the tab() of the node that manages
\* this one is called; the top-most node has none.
StepEmit ==
    /\ call.op = "emit"
    /\ call' = IF Parent(call.node) = "none" THEN NoCall
               ELSE Call("tab", Parent(call.node), call.node, 0, call.key)
    /\ UNCHANGED <<tabs, top, root, known, focus, emits, event,
                   oldVars, delayVars, evalVars, resampleVars, calcVars, garminVars>>

ChainStep ==
    \/ StepTab
    \/ StepTo
    \/ StepTrySetFocus
    \/ StepEmit

NextChain ==
    \/ ChainDiscover
    \/ \E node \in Nodes : \E list \in {<<>>, tabs[node]} : ChainReplaceAll(node, list)
    \/ \E w \in Widgets, key \in Keys : ChainKeypress(w, key)
    \/ ChainStep

SpecChain == InitChain /\ [][NextChain]_vars

\* A call that is running is carried out: the chain runs inside one handler.
SpecChainFair == SpecChain /\ WF_vars(ChainStep)

Running == call.op # "idle"

\* The top-most node has been discovered.
Discovered == top["R"]

\* A nested node that is top: discover was called on it with top=True.
NestedTop == \E node \in Nodes \ {"R"} : top[node]

\* C21: in a discovered tree the chain of calls of a keypress always ends.
C21_KeypressTerminates ==
    (Running /\ Discovered) ~> ~Running

\* The chain ends whenever no nested node is top and no node was given new
\* tabs since it was last discovered.
C21_TerminatesUnlessNestedTop ==
    (Running /\ Discovered /\ ~NestedTop
        /\ \A node \in NodesUnder("R") : known[node] \/ tabs[node] = <<>>)
    ~> ~Running

\* The chain of a keypress cannot reach a Tab: it is inside a nested node
\* that is top and under which there is no Tab.
C21_Looping ==
    /\ Running
    /\ call.op = "tab"
    /\ top[call.node]
    /\ call.node # "R"
    /\ Under(call.node) = {}


\* ---------------------------------------------------------------------------
\* GarminReader (src/py/ch2/pipeline/read/garmin.py): the download of
\* monitor data, at most once in twelve hours.  Time is counted in units of
\* four hours; what passes between two steps is a Tick.
\* ---------------------------------------------------------------------------

\* 12 * 60 * 60 seconds
TWELVE_HOURS == 3

MaxClock == 9

MaxDates == 2

Zones == {-1, 0, 1}

\* The local time of a time, as stored in the constant.
time_to_local_time(t, z) ==
    <<t + z>>

\* The time of a stored local time.
local_time_to_time(l, z) ==
    l[1] - z

\* A check that never finds the previous call too recent.
TooSoonNever(l, t, z) ==
    FALSE

\* last and (now() - local_time_to_time(last)).total_seconds() < 12 * 60 * 60
TooSoon(l, t, z) ==
    l # <<>> /\ t - local_time_to_time(l, z) < TWELVE_HOURS

InitGarmin ==
    /\ InitOthersGarmin
    /\ gnow = 0
    /\ zone \in Zones
    /\ user \in BOOLEAN
    /\ password \in BOOLEAN
    /\ force_all \in BOOLEAN
    /\ last = <<>>
    /\ gpc = "idle"
    /\ missing = <<>>
    /\ todo = 0
    /\ completed = <<>>

\* Time passes.
Tick ==
    /\ gnow < MaxClock
    /\ gnow' = gnow + 1
    /\ UNCHANGED <<zone, user, password, force_all, last, gpc, missing, todo, completed,
                   oldVars, delayVars, evalVars, resampleVars, calcVars, tabVars>>

\* _missing: nothing without both credentials, nothing within twelve hours of
\* the recorded time, nothing when missing_dates raises or finds no date;
\* else the first missing date, from which the download loop has dates to visit.
Missing ==
    /\ gpc = "idle"
    /\ IF ~(user /\ password) \/ TooSoon(last, gnow, zone)
       THEN UNCHANGED <<gpc, missing, todo>>
       ELSE \E dates \in -1..MaxDates :      \* -1: missing_dates raises
                IF dates <= 0
                THEN UNCHANGED <<gpc, missing, todo>>
                ELSE /\ missing' = <<"date">>
                     /\ todo' = dates
                     /\ gpc' = "recalculate"
    /\ UNCHANGED <<gnow, zone, user, password, force_all, last, completed,
                   oldVars, delayVars, evalVars, resampleVars, calcVars, tabVars>>

\* _recalculate up to the loop: one date is expected; connect.login returns
\* or raises, which ends the run.
Login ==
    /\ gpc = "recalculate"
    /\ \E raises \in BOOLEAN :
        IF Len(missing) # 1 \/ raises
        THEN /\ gpc' = "idle"
             /\ missing' = <<>>
             /\ todo' = 0
        ELSE /\ gpc' = "loop"
             /\ UNCHANGED <<missing, todo>>
    /\ UNCHANGED <<gnow, zone, user, password, force_all, last, completed,
                   oldVars, delayVars, evalVars, resampleVars, calcVars, tabVars>>

\* One turn of the loop: the download succeeds, or raises HTTPError, which
\* ends the loop unless force_all, or raises something else, which ends the run.
Download ==
    /\ gpc = "loop"
    /\ todo > 0
    /\ \E r \in {"none", "HTTPError", "Exception"} :
        IF r = "Exception"
        THEN /\ gpc' = "idle"
             /\ missing' = <<>>
             /\ todo' = 0
        ELSE /\ todo' = IF r = "HTTPError" /\ ~force_all THEN 0 ELSE todo - 1
             /\ UNCHANGED <<gpc, missing>>
    /\ UNCHANGED <<gnow, zone, user, password, force_all, last, completed,
                   oldVars, delayVars, evalVars, resampleVars, calcVars, tabVars>>

\* After the loop: set_constant(LAST_GARMIN, time_to_local_time(now())).
SetLast ==
    /\ gpc = "loop"
    /\ todo = 0
    /\ last' = time_to_local_time(gnow, zone)
    /\ completed' = IF completed = <<>> THEN <<gnow>>
                    ELSE <<completed[Len(completed)], gnow>>
    /\ gpc' = "idle"
    /\ missing' = <<>>
    /\ UNCHANGED <<gnow, zone, user, password, force_all, todo,
                   oldVars, delayVars, evalVars, resampleVars, calcVars, tabVars>>

NextGarmin ==
    \/ Tick
    \/ Missing
    \/ Login
    \/ Download
    \/ SetLast

SpecGarmin == InitGarmin /\ [][NextGarmin]_vars

====
